---- MODULE Spec2Model ----
(***************************************************************************)
(* Model of the inventory and production calculation engine of src/app.py. *)
(*                                                                         *)
(* The row store is modelled table by table: a table is a function from    *)
(* the ids of its rows to records whose fields carry the column names of   *)
(* the source.  Every handler of the Streamlit script that the properties  *)
(* below speak about is one action.                                        *)
(*                                                                         *)
(* Numbers.  Ledger quantities are Python ints and are modelled as         *)
(* integers.  qty_per_case is kept in tenths and wastage_factor in         *)
(* percent, so that cases * qty * (1 + wastage) is the exact rational      *)
(* n / 1000 that round() is applied to.  ABV is kept in hundredths of a    *)
(* percent; proof gallons and excise tax are kept as numerators over the   *)
(* fixed denominators PG_DEN and TAX_DEN.  Weights of bulk spirits are     *)
(* kept in units of 1/10000 lb, recipe percentages in hundredths of a      *)
(* percent, spirit ABV in tenths of a percent and batch ABV in units of    *)
(* 1/100000 percent, so that weight * percentage / 100 and the weighted    *)
(* ABV of a blend are exact.  A volume obtained from a weight is kept as   *)
(* the pair (weight, abv) it is the quotient weight / density(abv) of.     *)
(*                                                                         *)
(* Table.get() of a row that does not exist is modelled as the guards of   *)
(* the source read it (`if not inventory_item: continue`): the row is      *)
(* absent and the guard is taken.                                          *)
(*                                                                         *)
(* last records the handler that ran last, the arguments it was given and   *)
(* what it reported to the user (messages, inserted count rows).  The      *)
(* physical-count tables are written once per count and never read by a   *)
(* handler; the rows of a count are kept in last.                          *)
(*                                                                         *)
(* The tables raw_materials and recipes have no insert anywhere in the     *)
(* source, so the backward-compatibility loop of the production handler    *)
(* (lines 2867-2926) never has a row to work on and is not modelled.       *)
(***************************************************************************)
EXTENDS Integers, Sequences, FiniteSets, TLC

VARIABLES inventory_tracking, production_recipes, finished_goods,
          production_history,
          bulk_spirits, batches, batch_recipes, batch_production_log,
          orders, last

vars == <<inventory_tracking, production_recipes, finished_goods,
          production_history,
          bulk_spirits, batches, batch_recipes, batch_production_log,
          orders, last>>

ledgerVars == <<inventory_tracking, production_recipes, finished_goods,
                production_history>>

batchVars == <<bulk_spirits, batches, batch_recipes, batch_production_log>>

----------------------------------------------------------------------------
(* Program constants *)

UNITS_PER_CASE == 24

GALLONS_PER_CASE_100 == 127

\* 13.50 * 2 / 3: the tax is proof gallons * 9 over two thirds of PG_DEN.
TAX_RATE_X2_3 == 9

PG_DEN == 12000000

TAX_DEN == 8000000

----------------------------------------------------------------------------
(* Bounds of the model *)

MaxLog == 2

MaxBatchRuns == 2

MaxSpirits == 3

MaxGoods == 2

MaxOrders == 2

MaxShipments == 3

----------------------------------------------------------------------------
(* Input sets the handlers draw their arguments from *)

ItemIds == {1, 2}

FgIds == {1, 2}

PackagingTypes == {"Singles", "Shipping (S)", "In-store (I)"}

UpcChoices == {12, 24}

StartedChoices == {0, 100}

DepletedChoices == {120}

CasesRemainingChoices == {5}

ActualUnitsChoices == {7}

CasesProducedChoices == {3}

RecipeFormChoices == {[qty |-> 0, wastage |-> 0], [qty |-> 15, wastage |-> 0],
                      [qty |-> 5, wastage |-> 20]}

SpiritIds == {1, 2}

BatchIds == {1}

SpiritPercentageChoices == {0, 4000, 6000, 10000}

OtherPercentageChoices == {0, 3995, 4000}

WeightToProduceChoices == {10, 60}

\* Bottled Gallons entered in the batch table, in hundredths of a gallon.
BottledGallonsChoices == {50, 5000}

\* What the Add Finished Good form is filled with; ABV in hundredths of a
\* percent.
GoodFormChoices ==
    {[case_size |-> 24, singles |-> 164, bottled_s |-> 6, bottled_i |-> 13,
      abv |-> 1701],
     [case_size |-> 12, singles |-> 0, bottled_s |-> 0, bottled_i |-> 0,
      abv |-> 1701]}

CaseSizeChoices == {12}

CountedStockChoices ==
    {[singles |-> 20, bottled_s |-> 3, bottled_i |-> 0],
     [singles |-> 5, bottled_s |-> 0, bottled_i |-> 0]}

\* The statuses of the selectboxes of the sales page.
StatusChoices == {"Pending", "Paid", "Shipped", "Delivered"}

\* The items an order is created with: product and cases.
OrderItemsChoices ==
    {<<[product_name |-> 1, quantity_cases |-> 2]>>,
     <<[product_name |-> 2, quantity_cases |-> 1]>>}

\* Weights typed into the bulk spirits table, in units of 1/10000 lb.
EditedWeightChoices == {0, 300000}

SpiritNameChoices == {"Agave Spirit", "Cane Spirit"}

\* ABV in tenths of a percent and proof, as the receipt form takes them.
SpiritKindChoices == {[abv |-> 480, proof |-> 96], [abv |-> 400, proof |-> 80]}

\* Weight received, in units of 1/10000 lb.
ReceivedWeightChoices == {50000, 100000}

----------------------------------------------------------------------------
(* Python arithmetic *)

\* int(a / b) for b > 0: true division followed by truncation toward zero.
IntTrueDiv(a, b) == IF a >= 0 THEN a \div b ELSE -((-a) \div b)

\* round(n / d) for n >= 0, d > 0: Python 3 rounds halves to the even integer.
PyRound(n, d) ==
    LET q == n \div d
        r == n % d
    IN  IF 2 * r < d THEN q
        ELSE IF 2 * r > d THEN q + 1
        ELSE IF q % 2 = 0 THEN q ELSE q + 1

----------------------------------------------------------------------------
(* Finished-good metrics, lines 16-59 *)

\* The shipping cases left out of the total.
calculate_total_cases_from_stock_InStoreOnly(singles, bottled_s, bottled_i) ==
    singles + bottled_i * UNITS_PER_CASE

\* Numerator of total_cases over UNITS_PER_CASE.
calculate_total_cases_from_stock(singles, bottled_s, bottled_i) ==
    singles + bottled_s * UNITS_PER_CASE + bottled_i * UNITS_PER_CASE

\* The proof divided by 200 instead of 100.
calculate_proof_gallons_fg_PerTwoHundred(cases24, abv) ==
    (cases24 * GALLONS_PER_CASE_100 * abv) \div 2

\* wine_gallons * (proof / 100.0), with cases24 = 24 * cases and
\* abv in hundredths of a percent; the result is a numerator over PG_DEN.
calculate_proof_gallons_fg(cases24, abv) ==
    cases24 * GALLONS_PER_CASE_100 * abv

\* proof_gallons * 13.50, numerator over TAX_DEN.
calculate_excise_tax(proof_gallons) == proof_gallons * TAX_RATE_X2_3

\* The proof gallons taken of the whole cases only.
derive_finished_good_metrics_OfWholeCases(singles, bottled_s, bottled_i, abv) ==
    LET total24 == calculate_total_cases_from_stock(singles, bottled_s, bottled_i)
        whole24 == IntTrueDiv(total24, UNITS_PER_CASE) * UNITS_PER_CASE
        pg == IF abv > 0 THEN calculate_proof_gallons_fg(whole24, abv) ELSE 0
        tax == IF abv > 0 THEN calculate_excise_tax(pg) ELSE 0
    IN  [current_stock |-> IntTrueDiv(total24, UNITS_PER_CASE),
         proof_gallons |-> pg,
         excise_tax_due |-> tax]

\* Lines 20-34.
derive_finished_good_metrics(singles, bottled_s, bottled_i, abv) ==
    LET total24 == calculate_total_cases_from_stock(singles, bottled_s, bottled_i)
        pg == IF abv > 0 THEN calculate_proof_gallons_fg(total24, abv) ELSE 0
        tax == IF abv > 0 THEN calculate_excise_tax(pg) ELSE 0
    IN  [current_stock |-> IntTrueDiv(total24, UNITS_PER_CASE),
         proof_gallons |-> pg,
         excise_tax_due |-> tax]

\* The stock fields written without the metrics derived from them.
update_finished_good_KeepsMetrics(fg, singles, bottled_s, bottled_i, abv) ==
    [fg EXCEPT !.singles = singles,
               !.bottled_s = bottled_s,
               !.bottled_i = bottled_i]

\* Lines 36-51.
update_finished_good(fg, singles, bottled_s, bottled_i, abv) ==
    LET metrics == derive_finished_good_metrics(singles, bottled_s, bottled_i, abv)
    IN  [fg EXCEPT !.singles = singles,
                   !.bottled_s = bottled_s,
                   !.bottled_i = bottled_i,
                   !.current_stock = metrics.current_stock,
                   !.proof_gallons = metrics.proof_gallons,
                   !.excise_tax_due = metrics.excise_tax_due]

----------------------------------------------------------------------------
(* Inventory ledger *)

\* cases_remaining as every writer of the ledger computes it.
CasesFromUnits(units_remaining, units_per_case) ==
    IF units_per_case > 0 THEN IntTrueDiv(units_remaining, units_per_case) ELSE 0

\* A ledger row as the Add Item form inserts it, lines 2448-2462.
NewLedgerItem(units_per_case, started, depleted) ==
    [units_per_case |-> units_per_case,
     started |-> started,
     depleted |-> depleted,
     added |-> 0,
     units_remaining |-> started - depleted,
     cases_remaining |-> CasesFromUnits(started - depleted, units_per_case)]

\* A row of the edited table: units_per_case, started, depleted,
\* cases_remaining.

\* The tie-break lost: an edit of cases_remaining takes the leftover branch
\* whatever else changed.
IsCasesOnlyEdit_CasesWin(current_item, row) ==
    row.cases_remaining # current_item.cases_remaining

\* Lines 2523-2528: cases_remaining changed and started and depleted did not.
IsCasesOnlyEdit(current_item, row) ==
    LET started_changed == row.started # current_item.started
        depleted_changed == row.depleted # current_item.depleted
        cases_changed == row.cases_remaining # current_item.cases_remaining
    IN  cases_changed /\ ~(started_changed \/ depleted_changed)

\* The leftover units forgotten: whole cases only.
LeftoverPreservingEdit_DropsLeftover(current_item, row) ==
    LET units_remaining == row.cases_remaining * row.units_per_case
    IN  [units_per_case |-> row.units_per_case,
         started |-> row.started,
         depleted |-> row.depleted,
         added |-> units_remaining - row.started + row.depleted,
         units_remaining |-> units_remaining,
         cases_remaining |-> row.cases_remaining]

\* Lines 2529-2534: whole cases are set, the leftover units are kept and
\* added is solved for.
LeftoverPreservingEdit(current_item, row) ==
    LET leftover_units ==
            IF row.units_per_case > 0
            THEN current_item.units_remaining % row.units_per_case
            ELSE 0
        units_remaining ==
            (row.cases_remaining * row.units_per_case) + leftover_units
    IN  [units_per_case |-> row.units_per_case,
         started |-> row.started,
         depleted |-> row.depleted,
         added |-> units_remaining - row.started + row.depleted,
         units_remaining |-> units_remaining,
         cases_remaining |-> row.cases_remaining]

\* Lines 2535-2539: the standard formula with the stored added.
CanonicalEdit(current_item, row) ==
    LET added == current_item.added
        units_remaining == row.started - row.depleted + added
    IN  [units_per_case |-> row.units_per_case,
         started |-> row.started,
         depleted |-> row.depleted,
         added |-> added,
         units_remaining |-> units_remaining,
         cases_remaining |->
             CasesFromUnits(units_remaining, row.units_per_case)]

\* One row of Save All Changes on Inventory Tracking, lines 2509-2549.
ReconcileLedgerEdit(current_item, row) ==
    IF IsCasesOnlyEdit(current_item, row)
    THEN LeftoverPreservingEdit(current_item, row)
    ELSE CanonicalEdit(current_item, row)

\* The row the data editor shows for an item nobody touched.
ShownRow(item) ==
    [units_per_case |-> item.units_per_case,
     started |-> item.started,
     depleted |-> item.depleted,
     cases_remaining |-> item.cases_remaining]

\* The rows a user can hand back for one item.
EditedRows(item) ==
    [units_per_case : {item.units_per_case} \cup UpcChoices,
     started : {item.started} \cup StartedChoices,
     depleted : {item.depleted} \cup DepletedChoices,
     cases_remaining : {item.cases_remaining} \cup CasesRemainingChoices]

\* The tables a user can hand back: one row edited, the others as shown.
EditedTables ==
    {[i \in DOMAIN inventory_tracking |->
         IF i = id THEN row ELSE ShownRow(inventory_tracking[i])] :
        <<id, row>> \in UNION {{i} \X EditedRows(inventory_tracking[i]) :
                                  i \in DOMAIN inventory_tracking}}

\* Save All Changes on Inventory Tracking, lines 2507-2552.
SaveInventoryChanges(edited) ==
    /\ inventory_tracking' =
           [i \in DOMAIN inventory_tracking |->
               ReconcileLedgerEdit(inventory_tracking[i], edited[i])]
    /\ last' = [op |-> "save_inventory", rows |-> edited]
    /\ UNCHANGED <<production_recipes, finished_goods, production_history>>
    /\ UNCHANGED batchVars
    /\ UNCHANGED orders

\* Delete Selected Item on Inventory Tracking, lines 2559-2565.
DeleteInventoryItem(id) ==
    /\ id \in DOMAIN inventory_tracking
    /\ inventory_tracking' =
           [i \in DOMAIN inventory_tracking \ {id} |-> inventory_tracking[i]]
    /\ last' = [op |-> "delete_inventory_item", id |-> id]
    /\ UNCHANGED <<production_recipes, finished_goods, production_history>>
    /\ UNCHANGED batchVars
    /\ UNCHANGED orders

----------------------------------------------------------------------------
(* Physical count of ledger items, lines 3696-3773 *)

\* The percentage taken of the variance without the factor 100.
VariancePct_Unscaled(variance, system_units) ==
    IF system_units > 0
    THEN [num |-> variance, den |-> system_units]
    ELSE [num |-> 0, den |-> 1]

\* variance_percentage, lines 3601 and 3729, as the fraction num / den.
VariancePct(variance, system_units) ==
    IF system_units > 0
    THEN [num |-> variance * 100, den |-> system_units]
    ELSE [num |-> 0, den |-> 1]

CountRow(id, item, actual_units) ==
    [inventory_item_id |-> id,
     system_units |-> item.units_remaining,
     actual_units |-> actual_units,
     variance_units |-> actual_units - item.units_remaining,
     variance_percentage |->
         VariancePct(actual_units - item.units_remaining, item.units_remaining)]

\* added left as it was: only the remaining units are overwritten.
AdjustToCount_KeepsAdded(item, count, adjust_inv) ==
    IF adjust_inv /\ count.variance_units # 0
    THEN [item EXCEPT
            !.units_remaining = count.actual_units,
            !.cases_remaining =
                CasesFromUnits(count.actual_units, item.units_per_case)]
    ELSE item

\* Lines 3758-3767.
AdjustToCount(item, count, adjust_inv) ==
    IF adjust_inv /\ count.variance_units # 0
    THEN [item EXCEPT
            !.added = count.actual_units - item.started + item.depleted,
            !.units_remaining = count.actual_units,
            !.cases_remaining =
                CasesFromUnits(count.actual_units, item.units_per_case)]
    ELSE item

\* The counts a user can enter: the system count or another number.
EnteredCounts ==
    {actual \in [DOMAIN inventory_tracking ->
                    ActualUnitsChoices \cup
                    {inventory_tracking[i].units_remaining : i \in DOMAIN inventory_tracking}] :
        \A i \in DOMAIN inventory_tracking :
            actual[i] \in {inventory_tracking[i].units_remaining} \cup ActualUnitsChoices}

\* The checkbox ignored: every count that differs is written back.
SaveInventoryCount_AlwaysAdjusts(actual, adjust_inv) ==
    /\ \A i \in DOMAIN inventory_tracking : inventory_tracking[i].units_remaining >= 0
    /\ LET counts == [i \in DOMAIN inventory_tracking |->
                         CountRow(i, inventory_tracking[i], actual[i])]
       IN  /\ inventory_tracking' =
                  [i \in DOMAIN inventory_tracking |->
                      AdjustToCount(inventory_tracking[i], counts[i], TRUE)]
           /\ last' = [op |-> "inventory_count", actual |-> actual,
                       adjust |-> adjust_inv, inserted |-> counts]
    /\ UNCHANGED <<production_recipes, finished_goods, production_history>>
    /\ UNCHANGED batchVars
    /\ UNCHANGED orders

\* Save Inventory Count.  The number inputs have min_value=0 and take the
\* system count as their default, so the form exists only while no item
\* shows a negative count.
SaveInventoryCount(actual, adjust_inv) ==
    /\ \A i \in DOMAIN inventory_tracking : inventory_tracking[i].units_remaining >= 0
    /\ LET counts == [i \in DOMAIN inventory_tracking |->
                         CountRow(i, inventory_tracking[i], actual[i])]
       IN  /\ inventory_tracking' =
                  [i \in DOMAIN inventory_tracking |->
                      AdjustToCount(inventory_tracking[i], counts[i], adjust_inv)]
           /\ last' = [op |-> "inventory_count", actual |-> actual,
                       adjust |-> adjust_inv, inserted |-> counts]
    /\ UNCHANGED <<production_recipes, finished_goods, production_history>>
    /\ UNCHANGED batchVars
    /\ UNCHANGED orders

----------------------------------------------------------------------------
(* Production recipes, lines 2628-2696 *)

\* Save Recipe for one finished good and packaging type.  form gives, for
\* every ledger item on the page, the quantity per case (tenths, 0 = left
\* empty) and the wastage (percent).  The rows of the pair are replaced by
\* one row per item with a positive quantity.
SaveRecipe(fg_id, packaging_type, form) ==
    /\ fg_id \in DOMAIN finished_goods
    /\ DOMAIN inventory_tracking # {}
    /\ production_recipes' =
           {r \in production_recipes :
               ~(r.finished_good_id = fg_id /\ r.packaging_type = packaging_type)}
           \cup
           {[finished_good_id |-> fg_id,
             packaging_type |-> packaging_type,
             inventory_item_id |-> i,
             qty_per_case |-> form[i].qty,
             wastage_factor |-> form[i].wastage] :
               i \in {j \in DOMAIN inventory_tracking : form[j].qty > 0}}
    /\ last' = [op |-> "save_recipe", fg_id |-> fg_id,
                packaging_type |-> packaging_type]
    /\ UNCHANGED <<inventory_tracking, finished_goods, production_history>>
    /\ UNCHANGED batchVars
    /\ UNCHANGED orders

----------------------------------------------------------------------------
(* Production, lines 2757-2865 *)

\* Singles counted in cases instead of units.
ProducedStock_SinglesAsCases(fg, packaging_type, cases_produced) ==
    IF packaging_type = "Singles"
    THEN [singles |-> fg.singles + cases_produced,
          bottled_s |-> fg.bottled_s,
          bottled_i |-> fg.bottled_i]
    ELSE IF packaging_type = "Shipping (S)"
    THEN [singles |-> fg.singles,
          bottled_s |-> fg.bottled_s + cases_produced,
          bottled_i |-> fg.bottled_i]
    ELSE [singles |-> fg.singles,
          bottled_s |-> fg.bottled_s,
          bottled_i |-> fg.bottled_i + cases_produced]

\* Lines 2769-2782: the stock after producing cases_produced cases.
ProducedStock(fg, packaging_type, cases_produced) ==
    IF packaging_type = "Singles"
    THEN [singles |-> fg.singles + (cases_produced * UNITS_PER_CASE),
          bottled_s |-> fg.bottled_s,
          bottled_i |-> fg.bottled_i]
    ELSE IF packaging_type = "Shipping (S)"
    THEN [singles |-> fg.singles,
          bottled_s |-> fg.bottled_s + cases_produced,
          bottled_i |-> fg.bottled_i]
    ELSE [singles |-> fg.singles,
          bottled_s |-> fg.bottled_s,
          bottled_i |-> fg.bottled_i + cases_produced]

\* The cases logged as the units, and the proof gallons of one case.
ProductionLogEntry_UnitsAsCases(fg_id, fg, packaging_type, cases_produced) ==
    LET proof_gallons_produced ==
            IF fg.abv > 0
            THEN calculate_proof_gallons_fg(UNITS_PER_CASE, fg.abv)
            ELSE 0
    IN  [finished_good_id |-> fg_id,
         cases_produced |-> cases_produced,
         packaging_type |-> packaging_type,
         units_produced |-> cases_produced,
         proof_gallons_produced |-> proof_gallons_produced,
         excise_tax_incurred |->
             IF proof_gallons_produced > 0
             THEN calculate_excise_tax(proof_gallons_produced)
             ELSE 0]

\* Lines 2794-2816: the production_history row.
ProductionLogEntry(fg_id, fg, packaging_type, cases_produced) ==
    LET proof_gallons_produced ==
            IF fg.abv > 0
            THEN calculate_proof_gallons_fg(cases_produced * UNITS_PER_CASE, fg.abv)
            ELSE 0
    IN  [finished_good_id |-> fg_id,
         cases_produced |-> cases_produced,
         packaging_type |-> packaging_type,
         units_produced |-> cases_produced * UNITS_PER_CASE,
         proof_gallons_produced |-> proof_gallons_produced,
         excise_tax_incurred |->
             IF proof_gallons_produced > 0
             THEN calculate_excise_tax(proof_gallons_produced)
             ELSE 0]

\* The packaging type left out of the query.
MatchingRecipes_AnyPackaging(fg_id, packaging_type) ==
    {r \in production_recipes : r.finished_good_id = fg_id}

\* Lines 2818-2824.
MatchingRecipes(fg_id, packaging_type) ==
    {r \in production_recipes :
        r.finished_good_id = fg_id /\ r.packaging_type = packaging_type}

\* int() without round(), as the raw-material loop has it at line 2884.
DepletionUnits_Truncates(cases_produced, recipe) ==
    (cases_produced * recipe.qty_per_case * (100 + recipe.wastage_factor)) \div 1000

\* Lines 2842-2844: int(round(cases * qty_per_case * (1 + wastage_factor))).
DepletionUnits(cases_produced, recipe) ==
    PyRound(cases_produced * recipe.qty_per_case * (100 + recipe.wastage_factor), 1000)

\* Lines 2846-2858: one recipe row applied to its ledger item.
DepleteItem(inventory_item, depletion_int) ==
    LET new_depleted == inventory_item.depleted + depletion_int
        new_units_remaining ==
            inventory_item.started - new_depleted + inventory_item.added
    IN  [inventory_item EXCEPT
            !.depleted = new_depleted,
            !.units_remaining = new_units_remaining,
            !.cases_remaining =
                CasesFromUnits(new_units_remaining, inventory_item.units_per_case)]

\* Lines 2832-2865: the loop over the matching rows.  Save Recipe leaves at
\* most one row per ledger item for a pair, so the rows touch different
\* items and the loop is the row-wise update below; a row whose item is
\* gone is skipped without a message (lines 2838-2840).
DepleteInventory(recipes, cases_produced) ==
    [i \in DOMAIN inventory_tracking |->
        IF \E r \in recipes : r.inventory_item_id = i
        THEN LET r == CHOOSE x \in recipes : x.inventory_item_id = i
             IN  DepleteItem(inventory_tracking[i], DepletionUnits(cases_produced, r))
        ELSE inventory_tracking[i]]

\* A lookup that falls back to some existing good.
SelectedFinishedGood_FallsBack(product) ==
    IF product \in DOMAIN finished_goods
    THEN product
    ELSE CHOOSE f \in DOMAIN finished_goods : TRUE

\* Line 2762: the finished good the chosen name "<cocktail> (<bottle type>)"
\* denotes, 0 for None.  The goods of the model are the GLASS and the PET
\* bottling of one cocktail, so the name of a deleted one can still be
\* chosen while the other exists.
SelectedFinishedGood(product) ==
    IF product \in DOMAIN finished_goods THEN product ELSE 0

\* Record Production, lines 2757-2865.
RecordProduction(product, packaging_type, cases_produced) ==
    /\ DOMAIN finished_goods # {}
    /\ Len(production_history) < MaxLog
    /\ LET fg_id == SelectedFinishedGood(product)
       IN  IF fg_id = 0
           THEN \* line 2765: st.error; line 2868 then stops on the unbound fg_id
                /\ last' = [op |-> "production", product |-> product,
                            packaging_type |-> packaging_type,
                            cases_produced |-> cases_produced,
                            found |-> FALSE, messages |-> {"error_not_found"}]
                /\ UNCHANGED ledgerVars
           ELSE LET selected_fg == finished_goods[fg_id]
                    stock == ProducedStock(selected_fg, packaging_type, cases_produced)
                    recipes == MatchingRecipes(fg_id, packaging_type)
                IN  /\ finished_goods' =
                           [finished_goods EXCEPT ![fg_id] =
                               update_finished_good(selected_fg, stock.singles,
                                   stock.bottled_s, stock.bottled_i, selected_fg.abv)]
                    /\ production_history' =
                           Append(production_history,
                                  ProductionLogEntry(fg_id, selected_fg,
                                                     packaging_type, cases_produced))
                    /\ inventory_tracking' = DepleteInventory(recipes, cases_produced)
                    /\ last' = [op |-> "production", product |-> product,
                                packaging_type |-> packaging_type,
                                cases_produced |-> cases_produced,
                                found |-> TRUE,
                                messages |-> IF recipes = {}
                                             THEN {"warning_no_recipe"} ELSE {}]
                    /\ UNCHANGED production_recipes
    /\ UNCHANGED batchVars
    /\ UNCHANGED orders

\* A delete that takes the good's production log entries with it.
DeleteFinishedGood_CascadesToLog(id) ==
    /\ id \in DOMAIN finished_goods
    /\ finished_goods' =
           [i \in DOMAIN finished_goods \ {id} |-> finished_goods[i]]
    /\ production_history' =
           SelectSeq(production_history, LAMBDA e : e.finished_good_id # id)
    /\ last' = [op |-> "delete_finished_good", id |-> id]
    /\ UNCHANGED <<inventory_tracking, production_recipes>>
    /\ UNCHANGED batchVars
    /\ UNCHANGED orders

\* Delete Selected Item on Finished Goods, lines 1762-1771.
DeleteFinishedGood(id) ==
    /\ id \in DOMAIN finished_goods
    /\ finished_goods' =
           [i \in DOMAIN finished_goods \ {id} |-> finished_goods[i]]
    /\ last' = [op |-> "delete_finished_good", id |-> id]
    /\ UNCHANGED <<inventory_tracking, production_recipes, production_history>>
    /\ UNCHANGED batchVars
    /\ UNCHANGED orders

----------------------------------------------------------------------------
(* Unit conversion, lines 53-96 *)

LBS == 10000

ABV_PER_TENTH == 10000

\* A volume is weight / density(abv) - minus, with minus in hundredths of a
\* gallon; NoVolume is 0.0.
NoVolume == [weight |-> 0, abv |-> 0, minus |-> 0]

\* A proof-gallon figure is volume * proof / 100; NoProofGallons is 0.0.
NoProofGallons == [gallons |-> NoVolume, proof |-> 0]

\* calculate_gallons_from_weight: 0.0 for no weight, weight / density(abv)
\* otherwise.
calculate_gallons_from_weight(weight_lbs, abv) ==
    IF weight_lbs = 0
    THEN NoVolume
    ELSE [weight |-> weight_lbs, abv |-> abv, minus |-> 0]

\* calculate_weight_from_gallons: 0.0 for no volume, volume * density(abv)
\* otherwise.  Every volume a batch holds in this model was computed at the
\* ABV the batch stores with it, where the product is the weight itself.
calculate_weight_from_gallons(wine_gallons, abv) ==
    IF wine_gallons = NoVolume THEN 0 ELSE wine_gallons.weight

\* calculate_proof_gallons: wine_gallons * (proof / 100.0).
calculate_proof_gallons(wine_gallons, proof) ==
    IF wine_gallons = NoVolume \/ proof = 0
    THEN NoProofGallons
    ELSE [gallons |-> wine_gallons, proof |-> proof]

\* calculate_density_from_abv in thousandths of a pound per gallon, for an
\* ABV in units of 1/100000 percent: 8.345 * (1 - 0.211 * abv / 100), the
\* ABV taken to the hundredth of a percent.
calculate_density_from_abv(abv) ==
    8345 - (1761 * (abv \div 1000)) \div 10000

\* volume > 0: weight / density(abv) against minus, both sides multiplied
\* by the density.  The density is rounded, so the comparison is that of
\* the program for volumes that are not within a thousandth of zero.
IsPositiveVolume(volume) ==
    volume.weight * 10 > volume.minus * calculate_density_from_abv(volume.abv)

\* gallons - bottled_gallons.
SubtractGallons(volume, bottled_gallons) ==
    [volume EXCEPT !.minus = volume.minus + bottled_gallons]

----------------------------------------------------------------------------
(* Bulk spirits, lines 1775-2017 *)

\* A bulk spirit as Receive Spirit inserts it, lines 1846-1866.
NewSpirit(name, abv, proof, weight_lbs) ==
    LET wine_gallons == calculate_gallons_from_weight(weight_lbs, abv * ABV_PER_TENTH)
    IN  [name |-> name,
         abv |-> abv,
         proof |-> proof,
         weight_lbs |-> weight_lbs,
         wine_gallons |-> wine_gallons,
         proof_gallons |-> calculate_proof_gallons(wine_gallons, proof)]

\* The id an insert gives a new row: one more than the highest id in use.
NextSpiritId ==
    IF DOMAIN bulk_spirits = {} THEN 1
    ELSE 1 + CHOOSE m \in DOMAIN bulk_spirits :
                 \A x \in DOMAIN bulk_spirits : x <= m

\* Receive Spirit, lines 1846-1880: a new row whatever rows there are.  The
\* receipt log, which nothing reads back into the table, is left out.
ReceiveSpirit(name, kind, weight_lbs) ==
    /\ NextSpiritId <= MaxSpirits
    /\ weight_lbs > 0
    /\ bulk_spirits' =
           bulk_spirits @@
           (NextSpiritId :> NewSpirit(name, kind.abv, kind.proof, weight_lbs))
    /\ last' = [op |-> "receive_spirit", id |-> NextSpiritId, name |-> name,
                weight_lbs |-> weight_lbs]
    /\ UNCHANGED <<batches, batch_recipes, batch_production_log>>
    /\ UNCHANGED ledgerVars
    /\ UNCHANGED orders

\* The row the data editor shows for a spirit nobody touched.
ShownSpiritRow(spirit) ==
    [name |-> spirit.name, weight_lbs |-> spirit.weight_lbs, abv |-> spirit.abv]

\* The tables a user can hand back: the weight of one spirit typed over,
\* everything else as shown.  The column has min_value=0.0.
EditedSpiritTables ==
    {[s \in DOMAIN bulk_spirits |-> ShownSpiritRow(bulk_spirits[s])]} \cup
    {[s \in DOMAIN bulk_spirits |->
         IF s = e
         THEN [ShownSpiritRow(bulk_spirits[s]) EXCEPT !.weight_lbs = w]
         ELSE ShownSpiritRow(bulk_spirits[s])] :
       e \in DOMAIN bulk_spirits, w \in EditedWeightChoices}

\* Lines 1948-1965: one row of Save All Changes; proof = int(abv * 2).
EditSpirit(spirit, row) ==
    LET proof == (row.abv * 2) \div 10
        wine_gallons == calculate_gallons_from_weight(row.weight_lbs,
                                                      row.abv * ABV_PER_TENTH)
    IN  [spirit EXCEPT !.name = row.name,
                       !.weight_lbs = row.weight_lbs,
                       !.abv = row.abv,
                       !.proof = proof,
                       !.wine_gallons = wine_gallons,
                       !.proof_gallons = calculate_proof_gallons(wine_gallons, proof)]

\* Save All Changes on Bulk Spirits, lines 1946-1967.
SaveSpiritChanges(edited) ==
    /\ DOMAIN bulk_spirits # {}
    /\ bulk_spirits' =
           [s \in DOMAIN bulk_spirits |-> EditSpirit(bulk_spirits[s], edited[s])]
    /\ last' = [op |-> "save_spirits", rows |-> edited]
    /\ UNCHANGED <<batches, batch_recipes, batch_production_log>>
    /\ UNCHANGED ledgerVars
    /\ UNCHANGED orders

\* Confirm Delete under Remove Spirit, lines 2001-2014.
RemoveSpirit(id) ==
    /\ id \in DOMAIN bulk_spirits
    /\ bulk_spirits' = [s \in DOMAIN bulk_spirits \ {id} |-> bulk_spirits[s]]
    /\ last' = [op |-> "remove_spirit", id |-> id]
    /\ UNCHANGED <<batches, batch_recipes, batch_production_log>>
    /\ UNCHANGED ledgerVars
    /\ UNCHANGED orders

----------------------------------------------------------------------------
(* Batch recipes, lines 2210-2308 *)

\* Every total passes.
RecipeTotalAccepted_Always(total_percentage) == TRUE

\* Line 2289: abs(total_percentage - 100.0) < 0.1.
RecipeTotalAccepted(total_percentage) ==
    (IF total_percentage >= 10000
     THEN total_percentage - 10000
     ELSE 10000 - total_percentage) < 10

\* Save Recipe of a batch.  spirit_pct gives the percentage entered for
\* every bulk spirit, other_pct the percentages of the other ingredients.
SaveBatchRecipe ==
    /\ DOMAIN batches # {}
    /\ \E batch_id \in DOMAIN batches :
       \E spirit_pct \in [DOMAIN bulk_spirits -> SpiritPercentageChoices] :
       \E other_pct \in OtherPercentageChoices :
         LET recipe_items ==
                 {[batch_id |-> batch_id, bulk_spirit_id |-> s, slot |-> 0,
                   percentage |-> spirit_pct[s]] :
                     s \in {x \in DOMAIN bulk_spirits : spirit_pct[x] > 0}}
                 \cup
                 (IF other_pct > 0
                  THEN {[batch_id |-> batch_id, bulk_spirit_id |-> 0, slot |-> 1,
                         percentage |-> other_pct]}
                  ELSE {})
             spirit_total[S \in SUBSET DOMAIN bulk_spirits] ==
                 IF S = {} THEN 0
                 ELSE LET x == CHOOSE y \in S : TRUE
                      IN  spirit_pct[x] + spirit_total[S \ {x}]
             total_percentage == spirit_total[DOMAIN bulk_spirits] + other_pct
         IN  /\ IF RecipeTotalAccepted(total_percentage)
                THEN batch_recipes' =
                         {r \in batch_recipes : r.batch_id # batch_id}
                         \cup recipe_items
                ELSE UNCHANGED batch_recipes
             /\ last' = [op |-> "save_batch_recipe", batch_id |-> batch_id,
                         total_percentage |-> total_percentage,
                         saved |-> RecipeTotalAccepted(total_percentage)]
    /\ UNCHANGED <<bulk_spirits, batches, batch_production_log>>
    /\ UNCHANGED ledgerVars
    /\ UNCHANGED orders

----------------------------------------------------------------------------
(* Batch production, lines 2043-2190 *)

RecipesOfBatch(batch_id) == {r \in batch_recipes : r.batch_id = batch_id}

\* weight_to_produce * (percentage / 100.0), in units of 1/10000 lb.
IngredientWeight(weight_to_produce, recipe) ==
    weight_to_produce * recipe.percentage

\* One sufficient spirit taken to be enough.
CanProduce_AnySuffices(recipes, weight_to_produce) ==
    \E recipe \in recipes :
        /\ recipe.bulk_spirit_id # 0
        /\ recipe.bulk_spirit_id \in DOMAIN bulk_spirits
        /\ ~(bulk_spirits[recipe.bulk_spirit_id].weight_lbs
                < IngredientWeight(weight_to_produce, recipe))

\* Lines 2101-2110.
CanProduce(recipes, weight_to_produce) ==
    \A recipe \in recipes :
        (recipe.bulk_spirit_id # 0 /\ recipe.bulk_spirit_id \in DOMAIN bulk_spirits)
            => ~(bulk_spirits[recipe.bulk_spirit_id].weight_lbs
                    < IngredientWeight(weight_to_produce, recipe))

\* The percentages left out: the plain sum of the ABVs of the spirits.
BatchAbv_IgnoresPercentage(recipes, weight_to_produce) ==
    LET spirit_rows == {r \in recipes :
                           r.bulk_spirit_id # 0 /\ r.bulk_spirit_id \in DOMAIN bulk_spirits}
        alcohol[S \in SUBSET spirit_rows] ==
            IF S = {} THEN 0
            ELSE LET r == CHOOSE x \in S : TRUE
                 IN  bulk_spirits[r.bulk_spirit_id].abv * ABV_PER_TENTH
                     + alcohol[S \ {r}]
    IN  IF weight_to_produce > 0 THEN alcohol[spirit_rows] ELSE 0

\* Lines 2113-2123: the ABV of the run, in units of 1/100000 percent.
BatchAbv(recipes, weight_to_produce) ==
    LET spirit_rows == {r \in recipes :
                           r.bulk_spirit_id # 0 /\ r.bulk_spirit_id \in DOMAIN bulk_spirits}
        alcohol[S \in SUBSET spirit_rows] ==
            IF S = {} THEN 0
            ELSE LET r == CHOOSE x \in S : TRUE
                 IN  IngredientWeight(weight_to_produce, r)
                         * bulk_spirits[r.bulk_spirit_id].abv
                     + alcohol[S \ {r}]
    IN  IF weight_to_produce > 0
        THEN alcohol[spirit_rows] \div weight_to_produce
        ELSE 0

\* Only the weight written: the volumes keep their old values.
DepleteSpirit_KeepsGallons(spirit, depletion_weight) ==
    [spirit EXCEPT !.weight_lbs = spirit.weight_lbs - depletion_weight]

\* Lines 2136-2149: one spirit after its row has been taken out.
DepleteSpirit(spirit, depletion_weight) ==
    LET new_weight == spirit.weight_lbs - depletion_weight
        new_gallons == calculate_gallons_from_weight(new_weight,
                                                     spirit.abv * ABV_PER_TENTH)
    IN  [spirit EXCEPT
            !.weight_lbs = new_weight,
            !.wine_gallons = new_gallons,
            !.proof_gallons = calculate_proof_gallons(new_gallons, spirit.proof)]

\* One spirit after the loop has passed the rows that reference it: every
\* row reads the spirit as the rows before it left it.
RECURSIVE DepleteRows(_, _, _)
DepleteRows(spirit, rows, weight_to_produce) ==
    IF rows = {} THEN spirit
    ELSE LET r == CHOOSE x \in rows : TRUE
         IN  DepleteRows(DepleteSpirit(spirit, IngredientWeight(weight_to_produce, r)),
                         rows \ {r}, weight_to_produce)

\* Lines 2130-2156: the loop over the rows of the recipe.  The recipe form
\* leaves one row per spirit, so that in a recipe it saved every spirit
\* gives the weight of its own row.
DepleteSpirits(recipes, weight_to_produce) ==
    [s \in DOMAIN bulk_spirits |->
        DepleteRows(bulk_spirits[s], {r \in recipes : r.bulk_spirit_id = s},
                    weight_to_produce)]

\* The prior holding of the batch left out of the new total.
UpdateBatch_ForgetsPrior(selected_batch, weight_to_produce, batch_abv) ==
    LET new_total_weight == weight_to_produce * LBS
        new_total_gallons == calculate_gallons_from_weight(new_total_weight, batch_abv)
    IN  [selected_batch EXCEPT
            !.gallons = new_total_gallons,
            !.ending = SubtractGallons(new_total_gallons,
                                       selected_batch.bottled_gallons),
            !.abv = batch_abv,
            !.proof_gallons = calculate_proof_gallons(new_total_gallons, batch_abv * 2)]

\* Lines 2158-2170.
UpdateBatch(selected_batch, weight_to_produce, batch_abv) ==
    LET current_weight_lbs ==
            calculate_weight_from_gallons(selected_batch.gallons, selected_batch.abv)
        new_total_weight == current_weight_lbs + weight_to_produce * LBS
        new_total_gallons == calculate_gallons_from_weight(new_total_weight, batch_abv)
    IN  [selected_batch EXCEPT
            !.gallons = new_total_gallons,
            !.ending = SubtractGallons(new_total_gallons,
                                       selected_batch.bottled_gallons),
            !.abv = batch_abv,
            !.proof_gallons = calculate_proof_gallons(new_total_gallons, batch_abv * 2)]

\* Lines 2173-2182.
BatchLogEntry(batch_id, weight_to_produce, batch_abv) ==
    LET batch_gallons ==
            calculate_gallons_from_weight(weight_to_produce * LBS, batch_abv)
    IN  [batch_id |-> batch_id,
         weight_produced_lbs |-> weight_to_produce * LBS,
         gallons_produced |-> batch_gallons,
         abv |-> batch_abv,
         proof_gallons |-> calculate_proof_gallons(batch_gallons, batch_abv * 2)]

\* Produce Batch.  The form exists for a batch with a recipe; its submit
\* button is disabled unless can_produce holds, so an attempt that fails
\* the check never enters the handler.
ProduceBatch ==
    /\ Len(batch_production_log) < MaxBatchRuns
    /\ \E batch_id \in DOMAIN batches :
       \E weight_to_produce \in WeightToProduceChoices :
         LET recipes == RecipesOfBatch(batch_id)
             can_produce == CanProduce(recipes, weight_to_produce)
             batch_abv == BatchAbv(recipes, weight_to_produce)
         IN  /\ recipes # {}
             /\ IF can_produce
                THEN /\ bulk_spirits' = DepleteSpirits(recipes, weight_to_produce)
                     /\ batches' = [batches EXCEPT ![batch_id] =
                            UpdateBatch(batches[batch_id], weight_to_produce, batch_abv)]
                     /\ batch_production_log' =
                            Append(batch_production_log,
                                   BatchLogEntry(batch_id, weight_to_produce, batch_abv))
                ELSE UNCHANGED <<bulk_spirits, batches, batch_production_log>>
             /\ last' = [op |-> "produce_batch", batch_id |-> batch_id,
                         weight_to_produce |-> weight_to_produce,
                         produced |-> can_produce]
    /\ UNCHANGED batch_recipes
    /\ UNCHANGED ledgerVars
    /\ UNCHANGED orders

\* The ids S in ascending order, the order the loops of the handler visit
\* the rows a recipe save inserted.
RECURSIVE Ascending(_)
Ascending(S) ==
    IF S = {} THEN <<>>
    ELSE LET m == CHOOSE x \in S : \A y \in S : x <= y
         IN  <<m>> \o Ascending(S \ {m})

\* The log written before the stock it accounts for.
BatchRunWrites_LogFirst(recipes) ==
    LET spirit_ids == Ascending({r.bulk_spirit_id : r \in
                         {x \in recipes : x.bulk_spirit_id \in DOMAIN bulk_spirits}})
    IN  <<[table |-> "batch_production_log", id |-> 0]>>
        \o [k \in 1..Len(spirit_ids) |->
               [table |-> "bulk_spirits", id |-> spirit_ids[k]]]
        \o <<[table |-> "batches", id |-> 0]>>

\* The writes of the Produce Batch handler in the order it issues them:
\* one update per spirit of the recipe (lines 2131-2149), the update of the
\* batch (line 2165), the insert into the log (line 2173).
BatchRunWrites(recipes) ==
    LET spirit_ids == Ascending({r.bulk_spirit_id : r \in
                         {x \in recipes : x.bulk_spirit_id \in DOMAIN bulk_spirits}})
    IN  [k \in 1..Len(spirit_ids) |->
               [table |-> "bulk_spirits", id |-> spirit_ids[k]]]
        \o <<[table |-> "batches", id |-> 0]>>
        \o <<[table |-> "batch_production_log", id |-> 0]>>

\* Produce Batch stopped by an exception of the database after the first
\* writes_done of its writes; every write is committed on its own, so those
\* made stay.  Nothing is shown of such a run but the exception.
ProduceBatchInterrupted ==
    /\ Len(batch_production_log) < MaxBatchRuns
    /\ \E batch_id \in DOMAIN batches :
       \E weight_to_produce \in WeightToProduceChoices :
         LET recipes == RecipesOfBatch(batch_id)
             batch_abv == BatchAbv(recipes, weight_to_produce)
             writes == BatchRunWrites(recipes)
         IN  /\ recipes # {}
             /\ CanProduce(recipes, weight_to_produce)
             /\ \E writes_done \in 0..(Len(writes) - 1) :
                  LET done == {writes[k] : k \in 1..writes_done}
                      depleted == {r \in recipes :
                                     [table |-> "bulk_spirits",
                                      id |-> r.bulk_spirit_id] \in done}
                  IN  /\ bulk_spirits' = DepleteSpirits(depleted, weight_to_produce)
                      /\ batches' =
                             IF [table |-> "batches", id |-> 0] \in done
                             THEN [batches EXCEPT ![batch_id] =
                                     UpdateBatch(batches[batch_id],
                                                 weight_to_produce, batch_abv)]
                             ELSE batches
                      /\ batch_production_log' =
                             IF [table |-> "batch_production_log", id |-> 0] \in done
                             THEN Append(batch_production_log,
                                         BatchLogEntry(batch_id, weight_to_produce,
                                                       batch_abv))
                             ELSE batch_production_log
                      /\ last' = [op |-> "produce_batch_interrupted",
                                  batch_id |-> batch_id,
                                  weight_to_produce |-> weight_to_produce,
                                  writes_done |-> writes_done]
    /\ UNCHANGED batch_recipes
    /\ UNCHANGED ledgerVars
    /\ UNCHANGED orders

----------------------------------------------------------------------------
(* Current batch inventory, lines 2340-2392 *)

\* The row the data editor shows for a batch nobody touched.
ShownBatchRow(batch) ==
    [gallons |-> batch.gallons,
     bottled_gallons |-> batch.bottled_gallons,
     abv |-> batch.abv]

\* The tables a user can hand back: Bottled Gallons of one batch typed
\* over, everything else as shown.
EditedBatchTables ==
    {[b \in DOMAIN batches |-> ShownBatchRow(batches[b])]} \cup
    {[b \in DOMAIN batches |->
         IF b = e
         THEN [ShownBatchRow(batches[b]) EXCEPT !.bottled_gallons = g]
         ELSE ShownBatchRow(batches[b])] :
       e \in DOMAIN batches, g \in BottledGallonsChoices}

\* Lines 2377-2389: one row of Save All Changes.
EditBatch(batch, row) ==
    LET ending == SubtractGallons(row.gallons, row.bottled_gallons)
    IN  [batch EXCEPT
            !.gallons = row.gallons,
            !.bottled_gallons = row.bottled_gallons,
            !.ending = ending,
            !.abv = row.abv,
            !.proof_gallons =
                IF IsPositiveVolume(ending) /\ row.abv > 0
                THEN calculate_proof_gallons(ending, row.abv * 2)
                ELSE NoProofGallons]

\* Save All Changes on the batch table, lines 2371-2392.
SaveBatchChanges(edited) ==
    /\ DOMAIN batches # {}
    /\ batches' = [b \in DOMAIN batches |-> EditBatch(batches[b], edited[b])]
    /\ last' = [op |-> "save_batches", rows |-> edited]
    /\ UNCHANGED <<bulk_spirits, batch_recipes, batch_production_log>>
    /\ UNCHANGED ledgerVars
    /\ UNCHANGED orders

----------------------------------------------------------------------------
(* CRM/Sales, lines 3900-4101 *)

\* An order is its status, its order_items rows in the order of their ids
\* and stock_decreases, a history field that counts how often the Update
\* Status handler has decreased stock for it.  The customers are others
\* than "ABC Bakery", whose orders cleanup_example_data deletes at every
\* script start.
NextOrderId ==
    IF DOMAIN orders = {} THEN 1
    ELSE 1 + CHOOSE m \in DOMAIN orders : \A x \in DOMAIN orders : x <= m

\* Create Order, lines 3963-4002.  No stock is touched, whatever the status.
CreateOrder(status, items) ==
    /\ NextOrderId <= MaxOrders
    /\ \A k \in 1..Len(items) : items[k].product_name \in DOMAIN finished_goods
    /\ orders' = orders @@
                 (NextOrderId :> [status |-> status, order_items |-> items,
                                  stock_decreases |-> 0])
    /\ last' = [op |-> "create_order", id |-> NextOrderId, status |-> status]
    /\ UNCHANGED ledgerVars
    /\ UNCHANGED batchVars

Max(a, b) == IF a >= b THEN a ELSE b

\* Lines 4071-4089: quantity_cases taken from bottled_s, what is left of it
\* from bottled_i, what is left of that from singles.
ShipItem(fg, quantity_cases) ==
    LET new_bottled_s == Max(0, fg.bottled_s - quantity_cases)
        remaining_i == quantity_cases - (fg.bottled_s - new_bottled_s)
        new_bottled_i == Max(0, fg.bottled_i - remaining_i)
        remaining_s == remaining_i - (fg.bottled_i - new_bottled_i)
        new_singles == Max(0, fg.singles - remaining_s)
        new_sold == fg.sold + quantity_cases
    IN  [update_finished_good(fg, new_singles, new_bottled_s, new_bottled_i, fg.abv)
            EXCEPT !.sold = new_sold]

\* Lines 4063-4092: the items from the k-th on applied to goods, each to
\* the row as the items before it left it; an item whose product is gone
\* is reported and skipped.
RECURSIVE ShipItems(_, _, _)
ShipItems(goods, items, k) ==
    IF k > Len(items) THEN goods
    ELSE LET item == items[k]
         IN  IF item.product_name \in DOMAIN goods
             THEN ShipItems([goods EXCEPT ![item.product_name] =
                                ShipItem(goods[item.product_name],
                                         item.quantity_cases)],
                            items, k + 1)
             ELSE ShipItems(goods, items, k + 1)

\* Lines 4055 and 4061: old_status != "Shipped" and new_status == "Shipped".
EntersShipped(order, new_status) ==
    /\ order.status # "Shipped"
    /\ new_status = "Shipped"

\* Update Status of one order, lines 4050-4101.
UpdateStatus(id, new_status) ==
    /\ id \in DOMAIN orders
    /\ LET order == orders[id]
           found == \E k \in 1..Len(order.order_items) :
                        order.order_items[k].product_name \in DOMAIN finished_goods
       IN  IF EntersShipped(order, new_status)
           THEN /\ order.stock_decreases < MaxShipments
                /\ finished_goods' = ShipItems(finished_goods, order.order_items, 1)
                /\ orders' = [orders EXCEPT
                       ![id].status = new_status,
                       ![id].stock_decreases =
                           IF found THEN @ + 1 ELSE @]
                /\ last' = [op |-> "update_status", id |-> id,
                            old_status |-> order.status,
                            new_status |-> new_status, shipped |-> TRUE]
           ELSE /\ finished_goods' = finished_goods
                /\ orders' = [orders EXCEPT ![id].status = new_status]
                /\ last' = [op |-> "update_status", id |-> id,
                            old_status |-> order.status,
                            new_status |-> new_status, shipped |-> FALSE]
    /\ UNCHANGED <<inventory_tracking, production_recipes, production_history>>
    /\ UNCHANGED batchVars

----------------------------------------------------------------------------
(* Start of a script run, lines 1233-1290 and 1362-1368 *)

\* remove_duplicates on bulk_spirits, lines 360-370: of the rows that share
\* a name the one with the lowest id stays.  The rows of the other tables
\* carry different names in this model and all stay.
remove_duplicates(spirits) ==
    [s \in {x \in DOMAIN spirits :
                \A y \in DOMAIN spirits : y < x => spirits[y].name # spirits[x].name}
        |-> spirits[s]]

\* update_calculated_fields: the derived columns of every table are written
\* again from the stored ones.  spirits is the bulk_spirits table it finds.
update_calculated_fields(spirits) ==
    /\ bulk_spirits' =
           [s \in DOMAIN spirits |->
               [spirits[s] EXCEPT !.proof_gallons =
                   calculate_proof_gallons(spirits[s].wine_gallons,
                                           spirits[s].proof)]]
    /\ finished_goods' =
           [f \in DOMAIN finished_goods |->
               LET fg == finished_goods[f]
                   metrics == derive_finished_good_metrics(
                                  fg.singles, fg.bottled_s, fg.bottled_i, fg.abv)
               IN  [fg EXCEPT !.current_stock = metrics.current_stock,
                              !.proof_gallons = metrics.proof_gallons,
                              !.excise_tax_due = metrics.excise_tax_due]]
    /\ inventory_tracking' =
           [i \in DOMAIN inventory_tracking |->
               LET item == inventory_tracking[i]
                   units_remaining == item.started - item.depleted + item.added
               IN  [item EXCEPT
                       !.units_remaining = units_remaining,
                       !.cases_remaining =
                           CasesFromUnits(units_remaining, item.units_per_case)]]
    /\ batches' =
           [b \in DOMAIN batches |->
               [batches[b] EXCEPT !.proof_gallons =
                   IF IsPositiveVolume(batches[b].ending) /\ batches[b].abv > 0
                   THEN calculate_proof_gallons(batches[b].ending, batches[b].abv * 2)
                   ELSE NoProofGallons]]
    /\ UNCHANGED <<production_recipes, production_history, batch_recipes,
                   batch_production_log, orders>>

\* The start of a script run, lines 1362-1368: remove_duplicates, then
\* update_calculated_fields.  The seeded rows are left out of the tables of
\* this model, and with them seed_database, which only inserts them.
ScriptStart ==
    /\ update_calculated_fields(remove_duplicates(bulk_spirits))
    /\ last' = [op |-> "reload"]

----------------------------------------------------------------------------
(* Initial state and specifications *)

\* A finished good as the Add Finished Good form inserts it, lines 1643-1658.
NewFinishedGood(singles, bottled_s, bottled_i, abv) ==
    LET metrics == derive_finished_good_metrics(singles, bottled_s, bottled_i, abv)
    IN  [case_size |-> UNITS_PER_CASE,
         singles |-> singles,
         bottled_s |-> bottled_s,
         bottled_i |-> bottled_i,
         sold |-> 0,
         abv |-> abv,
         current_stock |-> metrics.current_stock,
         proof_gallons |-> metrics.proof_gallons,
         excise_tax_due |-> metrics.excise_tax_due]

\* A batch type as Create Batch Type inserts it, lines 2323-2332.
NewBatch(abv) ==
    [gallons |-> NoVolume,
     bottled_gallons |-> 0,
     ending |-> NoVolume,
     abv |-> abv,
     proof_gallons |-> NoProofGallons]

----------------------------------------------------------------------------
(* Finished Goods page, lines 1625-1773, and its physical count, 3540-3660 *)

\* The id an insert gives a new finished good.
NextGoodId ==
    IF DOMAIN finished_goods = {} THEN 1
    ELSE 1 + CHOOSE m \in DOMAIN finished_goods :
                 \A x \in DOMAIN finished_goods : x <= m

\* Add Finished Good, lines 1643-1660, under a name no other good has.
AddFinishedGood(form) ==
    /\ NextGoodId <= MaxGoods
    /\ finished_goods' =
           finished_goods @@
           (NextGoodId :>
               [NewFinishedGood(form.singles, form.bottled_s, form.bottled_i,
                                form.abv)
                   EXCEPT !.case_size = form.case_size])
    /\ last' = [op |-> "add_good", id |-> NextGoodId, form |-> form]
    /\ UNCHANGED <<inventory_tracking, production_recipes, production_history>>
    /\ UNCHANGED batchVars
    /\ UNCHANGED orders

\* The row the data editor shows for a good nobody touched.
ShownGoodRow(fg) ==
    [case_size |-> fg.case_size,
     singles |-> fg.singles,
     bottled_s |-> fg.bottled_s,
     bottled_i |-> fg.bottled_i,
     sold |-> fg.sold,
     abv |-> fg.abv]

\* The tables a user can hand back: Case Size of one good typed over,
\* everything else as shown.
EditedGoodsTables ==
    {[f \in DOMAIN finished_goods |-> ShownGoodRow(finished_goods[f])]} \cup
    {[f \in DOMAIN finished_goods |->
         IF f = e
         THEN [ShownGoodRow(finished_goods[f]) EXCEPT !.case_size = c]
         ELSE ShownGoodRow(finished_goods[f])] :
       e \in DOMAIN finished_goods, c \in CaseSizeChoices}

\* Lines 1731-1754: one row of Save All Changes.
EditFinishedGood(fg, row) ==
    LET metrics == derive_finished_good_metrics(row.singles, row.bottled_s,
                                                row.bottled_i, row.abv)
    IN  [fg EXCEPT !.case_size = row.case_size,
                   !.singles = row.singles,
                   !.bottled_s = row.bottled_s,
                   !.bottled_i = row.bottled_i,
                   !.sold = row.sold,
                   !.abv = row.abv,
                   !.current_stock = metrics.current_stock,
                   !.proof_gallons = metrics.proof_gallons,
                   !.excise_tax_due = metrics.excise_tax_due]

\* Save All Changes on Finished Goods, lines 1730-1757.
SaveFinishedGoods(edited) ==
    /\ DOMAIN finished_goods # {}
    /\ finished_goods' =
           [f \in DOMAIN finished_goods |->
               EditFinishedGood(finished_goods[f], edited[f])]
    /\ last' = [op |-> "save_goods", rows |-> edited]
    /\ UNCHANGED <<inventory_tracking, production_recipes, production_history>>
    /\ UNCHANGED batchVars
    /\ UNCHANGED orders

\* The stock the count form shows for a good nobody counted.
ShownStock(fg) ==
    [singles |-> fg.singles, bottled_s |-> fg.bottled_s, bottled_i |-> fg.bottled_i]

\* The counts a user can enter: per good the system stock or another one.
EnteredStocks ==
    {actual \in [DOMAIN finished_goods ->
                    CountedStockChoices \cup
                    {ShownStock(finished_goods[f]) : f \in DOMAIN finished_goods}] :
        \A f \in DOMAIN finished_goods :
            actual[f] \in {ShownStock(finished_goods[f])} \cup CountedStockChoices}

\* Lines 3596-3616: the count row of one finished good.
GoodCountRow(id, fg, actual) ==
    LET system_units == fg.singles + (fg.bottled_s * UNITS_PER_CASE)
                            + (fg.bottled_i * UNITS_PER_CASE)
        actual_units == actual.singles + (actual.bottled_s * UNITS_PER_CASE)
                            + (actual.bottled_i * UNITS_PER_CASE)
        variance_units == actual_units - system_units
    IN  [fg_id |-> id,
         system_singles |-> fg.singles,
         actual_singles |-> actual.singles,
         system_bottled_s |-> fg.bottled_s,
         actual_bottled_s |-> actual.bottled_s,
         system_bottled_i |-> fg.bottled_i,
         actual_bottled_i |-> actual.bottled_i,
         variance_units |-> variance_units,
         variance_cases |-> [num |-> variance_units, den |-> UNITS_PER_CASE],
         variance_percentage |-> VariancePct(variance_units, system_units)]

\* Save Physical Count, lines 3623-3658.
SavePhysicalCount(actual, adjust_inventory) ==
    /\ DOMAIN finished_goods # {}
    /\ LET counts == [f \in DOMAIN finished_goods |->
                         GoodCountRow(f, finished_goods[f], actual[f])]
       IN  /\ finished_goods' =
                  [f \in DOMAIN finished_goods |->
                      IF adjust_inventory
                      THEN update_finished_good(
                               finished_goods[f], actual[f].singles,
                               actual[f].bottled_s, actual[f].bottled_i,
                               finished_goods[f].abv)
                      ELSE finished_goods[f]]
           /\ last' = [op |-> "physical_count", actual |-> actual,
                       adjust |-> adjust_inventory, inserted |-> counts]
    /\ UNCHANGED <<inventory_tracking, production_recipes, production_history>>
    /\ UNCHANGED batchVars
    /\ UNCHANGED orders

\* The tables of the batches page.
InitBatches ==
    /\ bulk_spirits = (1 :> NewSpirit("Agave Spirit", 480, 96, 50 * LBS)) @@
                      (2 :> NewSpirit("Cane Spirit", 400, 80, 20 * LBS))
    /\ batches = (1 :> NewBatch(1602000))
    /\ batch_recipes = {}
    /\ batch_production_log = <<>>

\* Two ledger items, the GLASS and the PET bottling of one cocktail, and no
\* production recipe yet.
Init ==
    /\ inventory_tracking = (1 :> NewLedgerItem(24, 100, 10)) @@
                            (2 :> NewLedgerItem(4, 6, 0))
    /\ production_recipes = {}
    /\ finished_goods = (1 :> NewFinishedGood(5, 1, 0, 1701)) @@
                        (2 :> NewFinishedGood(0, 0, 0, 0))
    /\ production_history = <<>>
    /\ InitBatches
    /\ orders = <<>>
    /\ last = [op |-> "init"]

\* The recipes and production pages.
Next ==
    \/ \E form \in [DOMAIN inventory_tracking -> RecipeFormChoices] :
           SaveRecipe(1, "Singles", form)
    \/ \E product \in FgIds, packaging_type \in PackagingTypes,
          cases_produced \in CasesProducedChoices :
           RecordProduction(product, packaging_type, cases_produced)
    \/ \E id \in ItemIds : DeleteInventoryItem(id)
    \/ \E id \in FgIds : DeleteFinishedGood(id)
    \/ ScriptStart

Spec == Init /\ [][Next]_vars

\* One ledger item with the recipe of the Singles packaging of good 1 saved
\* for it.
InitLedger ==
    /\ inventory_tracking = (1 :> NewLedgerItem(24, 100, 10))
    /\ production_recipes =
           {[finished_good_id |-> 1, packaging_type |-> "Singles",
             inventory_item_id |-> 1, qty_per_case |-> 25, wastage_factor |-> 0]}
    /\ finished_goods = (1 :> NewFinishedGood(5, 1, 0, 1701))
    /\ production_history = <<>>
    /\ InitBatches
    /\ orders = <<>>
    /\ last = [op |-> "init"]

\* The inventory tracking and physical count pages, with production.
NextLedger ==
    \/ \E edited \in EditedTables : SaveInventoryChanges(edited)
    \/ \E actual \in EnteredCounts, adjust_inv \in BOOLEAN :
           SaveInventoryCount(actual, adjust_inv)
    \/ \E cases_produced \in CasesProducedChoices :
           RecordProduction(1, "Singles", cases_produced)
    \/ ScriptStart

SpecLedger == InitLedger /\ [][NextLedger]_vars

\* The batches page.
NextBatch ==
    \/ SaveBatchRecipe
    \/ ProduceBatch
    \/ ScriptStart

SpecBatch == Init /\ [][NextBatch]_vars

\* Two batches with their recipes saved: 60% spirit 1 and 40% of another
\* ingredient for batch 1, spirit 2 alone for batch 2.
InitBatchTable ==
    /\ inventory_tracking = (1 :> NewLedgerItem(24, 100, 10))
    /\ production_recipes = {}
    /\ finished_goods = (1 :> NewFinishedGood(5, 1, 0, 1701))
    /\ production_history = <<>>
    /\ bulk_spirits = (1 :> NewSpirit("Agave Spirit", 480, 96, 50 * LBS)) @@
                      (2 :> NewSpirit("Cane Spirit", 400, 80, 20 * LBS))
    /\ batches = (1 :> NewBatch(1602000)) @@ (2 :> NewBatch(4000000))
    /\ batch_recipes =
           {[batch_id |-> 1, bulk_spirit_id |-> 1, slot |-> 0, percentage |-> 6000],
            [batch_id |-> 1, bulk_spirit_id |-> 0, slot |-> 1, percentage |-> 4000],
            [batch_id |-> 2, bulk_spirit_id |-> 2, slot |-> 0, percentage |-> 10000]}
    /\ batch_production_log = <<>>
    /\ orders = <<>>
    /\ last = [op |-> "init"]

\* One batch with its recipe saved: 60% spirit 1, 30% spirit 2 and 10% of
\* another ingredient.
InitBatchRun ==
    /\ inventory_tracking = (1 :> NewLedgerItem(24, 100, 10))
    /\ production_recipes = {}
    /\ finished_goods = (1 :> NewFinishedGood(5, 1, 0, 1701))
    /\ production_history = <<>>
    /\ bulk_spirits = (1 :> NewSpirit("Agave Spirit", 480, 96, 50 * LBS)) @@
                      (2 :> NewSpirit("Cane Spirit", 400, 80, 20 * LBS))
    /\ batches = (1 :> NewBatch(1602000))
    /\ batch_recipes =
           {[batch_id |-> 1, bulk_spirit_id |-> 1, slot |-> 0, percentage |-> 6000],
            [batch_id |-> 1, bulk_spirit_id |-> 2, slot |-> 0, percentage |-> 3000],
            [batch_id |-> 1, bulk_spirit_id |-> 0, slot |-> 1, percentage |-> 1000]}
    /\ batch_production_log = <<>>
    /\ orders = <<>>
    /\ last = [op |-> "init"]

\* Batch production, whole or stopped partway.
NextBatchRun ==
    \/ ProduceBatch
    \/ ProduceBatchInterrupted
    \/ ScriptStart

SpecBatchRun == InitBatchRun /\ [][NextBatchRun]_vars

\* A good of 48 singles and 1 shipping case and a good of 2 shipping cases
\* and 1 in-store case, and no order.
InitSales ==
    /\ inventory_tracking = (1 :> NewLedgerItem(24, 100, 10))
    /\ production_recipes = {}
    /\ finished_goods = (1 :> NewFinishedGood(48, 1, 0, 1701)) @@
                        (2 :> NewFinishedGood(0, 2, 1, 1701))
    /\ production_history = <<>>
    /\ InitBatches
    /\ orders = <<>>
    /\ last = [op |-> "init"]

\* The sales page, with the deletion of a finished good.
NextSales ==
    \/ \E status \in StatusChoices, items \in OrderItemsChoices :
           CreateOrder(status, items)
    \/ \E id \in DOMAIN orders, new_status \in StatusChoices :
           UpdateStatus(id, new_status)
    \/ \E id \in DOMAIN finished_goods : DeleteFinishedGood(id)
    \/ ScriptStart

SpecSales == InitSales /\ [][NextSales]_vars

\* One batch whose recipe holds two rows that reference spirit 1, 60% and
\* 40%: the table has no constraint against it, and the handlers below
\* take the rows as they find them.
InitSpiritStock ==
    /\ inventory_tracking = (1 :> NewLedgerItem(24, 100, 10))
    /\ production_recipes = {}
    /\ finished_goods = (1 :> NewFinishedGood(5, 1, 0, 1701))
    /\ production_history = <<>>
    /\ bulk_spirits = (1 :> NewSpirit("Agave Spirit", 480, 96, 50 * LBS)) @@
                      (2 :> NewSpirit("Cane Spirit", 400, 80, 20 * LBS))
    /\ batches = (1 :> NewBatch(1602000))
    /\ batch_recipes =
           {[batch_id |-> 1, bulk_spirit_id |-> 1, slot |-> 0, percentage |-> 6000],
            [batch_id |-> 1, bulk_spirit_id |-> 1, slot |-> 0, percentage |-> 4000]}
    /\ batch_production_log = <<>>
    /\ orders = <<>>
    /\ last = [op |-> "init"]

\* Receipts, edits of the spirit table and batch production.
NextSpiritStock ==
    \/ \E name \in SpiritNameChoices, kind \in SpiritKindChoices,
          weight_lbs \in ReceivedWeightChoices :
           ReceiveSpirit(name, kind, weight_lbs)
    \/ \E edited \in EditedSpiritTables : SaveSpiritChanges(edited)
    \/ ProduceBatch
    \/ ScriptStart

SpecSpiritStock == InitSpiritStock /\ [][NextSpiritStock]_vars

\* One ledger item and one finished good of 4 singles and 4 shipping cases.
InitGoods ==
    /\ inventory_tracking = (1 :> NewLedgerItem(24, 100, 10))
    /\ production_recipes = {}
    /\ finished_goods = (1 :> NewFinishedGood(4, 4, 0, 1701))
    /\ production_history = <<>>
    /\ InitBatches
    /\ orders = <<>>
    /\ last = [op |-> "init"]

\* The finished goods page and the physical counts.
NextGoods ==
    \/ \E form \in GoodFormChoices : AddFinishedGood(form)
    \/ \E edited \in EditedGoodsTables : SaveFinishedGoods(edited)
    \/ \E actual \in EnteredStocks, adjust_inventory \in BOOLEAN :
           SavePhysicalCount(actual, adjust_inventory)
    \/ \E actual \in EnteredCounts, adjust_inv \in BOOLEAN :
           SaveInventoryCount(actual, adjust_inv)
    \/ ScriptStart

SpecGoods == InitGoods /\ [][NextGoods]_vars

\* The bulk spirits page.
NextSpirits ==
    \/ \E name \in SpiritNameChoices, kind \in SpiritKindChoices,
          weight_lbs \in ReceivedWeightChoices :
           ReceiveSpirit(name, kind, weight_lbs)
    \/ \E id \in DOMAIN bulk_spirits : RemoveSpirit(id)
    \/ ScriptStart

SpecSpirits == Init /\ [][NextSpirits]_vars

\* The batch table and production.
NextBatchTable ==
    \/ \E edited \in EditedBatchTables : SaveBatchChanges(edited)
    \/ ProduceBatch
    \/ ScriptStart

SpecBatchTable == InitBatchTable /\ [][NextBatchTable]_vars

----------------------------------------------------------------------------
(* Properties of the inventory ledger, checked under SpecLedger *)

\* The whole number of cases in units, the quotient truncated toward zero.
WholeCases(units, units_per_case, cases) ==
    IF units >= 0
    THEN cases >= 0 /\ cases * units_per_case <= units
                    /\ units < (cases + 1) * units_per_case
    ELSE cases <= 0 /\ units <= cases * units_per_case
                    /\ (cases - 1) * units_per_case < units

\* C1: after any sequence of ledger edits, production depletions and
\* physical-count adjustments every ledger item has
\* units_remaining = started - depleted + added.
C1_LedgerFormula ==
    \A i \in DOMAIN inventory_tracking :
        inventory_tracking[i].units_remaining =
            inventory_tracking[i].started - inventory_tracking[i].depleted
                + inventory_tracking[i].added

\* An adjusting count has just rewritten added of an item that production
\* has depleted before.
C1_Witness ==
    /\ last.op = "inventory_count"
    /\ last.adjust
    /\ Len(production_history) > 0
    /\ \E i \in DOMAIN inventory_tracking :
          /\ last.inserted[i].variance_units # 0
          /\ inventory_tracking[i].added # 0
          /\ inventory_tracking[i].units_remaining = last.actual[i]

\* C2: after every write of a ledger item cases_remaining is
\* floor(units_remaining / units_per_case) when units_per_case > 0 and 0
\* otherwise, also for a negative units_remaining.
C2_CasesAreFloor ==
    \A i \in DOMAIN inventory_tracking :
        inventory_tracking[i].cases_remaining =
            IF inventory_tracking[i].units_per_case > 0
            THEN inventory_tracking[i].units_remaining
                     \div inventory_tracking[i].units_per_case
            ELSE 0

\* C3: an edit that changes cases_remaining and neither started nor depleted
\* stores the requested cases_remaining, units_remaining = requested cases *
\* units_per_case + (stored units_remaining mod units_per_case) and
\* added = units_remaining - started + depleted; with units_per_case 24,
\* started 100, depleted 10, added 0, cases 3 -> 5 gives 138 and 48.
C3_LeftoverPreserved ==
    [][last'.op = "save_inventory" =>
        \A i \in DOMAIN inventory_tracking :
            LET cur == inventory_tracking[i]
                row == last'.rows[i]
                new == inventory_tracking'[i]
            IN  (/\ row.cases_remaining # cur.cases_remaining
                 /\ row.started = cur.started
                 /\ row.depleted = cur.depleted)
                => /\ new.cases_remaining = row.cases_remaining
                   /\ new.units_remaining =
                          row.cases_remaining * row.units_per_case
                              + (cur.units_remaining % row.units_per_case)
                   /\ new.added = new.units_remaining - new.started + new.depleted
                   /\ new.started = cur.started
                   /\ new.depleted = cur.depleted
                   /\ (/\ row.units_per_case = 24 /\ cur.started = 100
                       /\ cur.depleted = 10 /\ cur.added = 0
                       /\ cur.cases_remaining = 3 /\ row.cases_remaining = 5)
                      => (new.units_remaining = 138 /\ new.added = 48)]_vars

\* The example of C3 has just been saved.
C3_Witness ==
    /\ last.op = "save_inventory"
    /\ last.rows[1] = [units_per_case |-> 24, started |-> 100,
                       depleted |-> 10, cases_remaining |-> 5]
    /\ inventory_tracking[1] = [units_per_case |-> 24, started |-> 100,
                                depleted |-> 10, added |-> 48,
                                units_remaining |-> 138, cases_remaining |-> 5]

\* C4: an edit that changes started or depleted, whether or not it also
\* changes cases_remaining, keeps the stored added, stores
\* units_remaining = started - depleted + added and the whole cases of that
\* units_remaining, and drops the requested cases_remaining.
C4_CanonicalPathWins ==
    [][last'.op = "save_inventory" =>
        \A i \in DOMAIN inventory_tracking :
            LET cur == inventory_tracking[i]
                row == last'.rows[i]
                new == inventory_tracking'[i]
            IN  (row.started # cur.started \/ row.depleted # cur.depleted)
                => /\ new.added = cur.added
                   /\ new.started = row.started
                   /\ new.depleted = row.depleted
                   /\ new.units_remaining = row.started - row.depleted + cur.added
                   /\ WholeCases(new.units_remaining, row.units_per_case,
                                 new.cases_remaining)]_vars

\* Depleted 10 -> 120 and cases_remaining 3 -> 5 have just been saved in one
\* row: the 5 is dropped.
C4_Witness ==
    /\ last.op = "save_inventory"
    /\ last.rows[1] = [units_per_case |-> 24, started |-> 100,
                       depleted |-> 120, cases_remaining |-> 5]
    /\ inventory_tracking[1] = [units_per_case |-> 24, started |-> 100,
                                depleted |-> 120, added |-> 0,
                                units_remaining |-> -20, cases_remaining |-> 0]

----------------------------------------------------------------------------
(* Properties of production, checked under Spec *)

\* d is round(n / 1000): the nearest integer, the even one of two nearest.
IsRounded(n, d) ==
    LET err == IF 1000 * d >= n THEN 1000 * d - n ELSE n - 1000 * d
    IN  /\ err <= 500
        /\ err = 500 => d % 2 = 0

\* The rows of the recipe table for the request recorded in l.
RequestedRecipes(l) ==
    {r \in production_recipes :
        r.finished_good_id = l.product /\ r.packaging_type = l.packaging_type}

C6_OneStockField ==
    [][(last'.op = "production" /\ last'.found) =>
        LET cur == finished_goods[last'.product]
            new == finished_goods'[last'.product]
            c == last'.cases_produced
        IN  /\ last'.packaging_type = "Singles" =>
                  /\ new.singles = cur.singles + c * 24
                  /\ new.bottled_s = cur.bottled_s
                  /\ new.bottled_i = cur.bottled_i
            /\ last'.packaging_type = "Shipping (S)" =>
                  /\ new.singles = cur.singles
                  /\ new.bottled_s = cur.bottled_s + c
                  /\ new.bottled_i = cur.bottled_i
            /\ last'.packaging_type = "In-store (I)" =>
                  /\ new.singles = cur.singles
                  /\ new.bottled_s = cur.bottled_s
                  /\ new.bottled_i = cur.bottled_i + c]_vars

\* Three cases of Singles and then three cases In-store have been produced
\* of good 1, which started with 5 singles and one shipping case.
C6_Witness ==
    /\ last.op = "production"
    /\ last.found
    /\ last.product = 1
    /\ last.packaging_type = "In-store (I)"
    /\ 1 \in DOMAIN finished_goods
    /\ finished_goods[1].singles = 5 + 3 * 24
    /\ finished_goods[1].bottled_s = 1
    /\ finished_goods[1].bottled_i = 3

\* C7: a production request for a finished good that does not exist is
\* rejected as a whole: no finished good, production log entry, ledger item
\* or recipe row changes.
C7_UnknownGoodRejected ==
    [][(last'.op = "production" /\ last'.product \notin DOMAIN finished_goods) =>
        /\ finished_goods' = finished_goods
        /\ production_history' = production_history
        /\ inventory_tracking' = inventory_tracking
        /\ production_recipes' = production_recipes
        /\ "error_not_found" \in last'.messages]_vars

\* Production has just been requested for a deleted good that still has
\* recipe rows pointing at an existing ledger item.
C7_Witness ==
    /\ last.op = "production"
    /\ ~last.found
    /\ last.product \notin DOMAIN finished_goods
    /\ \E r \in RequestedRecipes(last) :
          r.inventory_item_id \in DOMAIN inventory_tracking

\* C8: when no recipe row matches the good and the packaging type,
\* production still succeeds: the stock of the good grows, one log entry is
\* appended, no ledger item changes and a warning is reported.
C8_NoRecipeIsAWarning ==
    [][(last'.op = "production" /\ last'.found /\ RequestedRecipes(last') = {}) =>
        LET cur == finished_goods[last'.product]
            new == finished_goods'[last'.product]
        IN  /\ new.singles + 24 * (new.bottled_s + new.bottled_i) =
                  cur.singles + 24 * (cur.bottled_s + cur.bottled_i)
                      + 24 * last'.cases_produced
            /\ Len(production_history') = Len(production_history) + 1
            /\ production_history'[Len(production_history')].finished_good_id
                   = last'.product
            /\ production_history'[Len(production_history')].cases_produced
                   = last'.cases_produced
            /\ inventory_tracking' = inventory_tracking
            /\ "warning_no_recipe" \in last'.messages]_vars

\* Shipping cases of good 1 have just been produced while only its Singles
\* packaging has a recipe.
C8_Witness ==
    /\ last.op = "production"
    /\ last.found
    /\ last.product = 1
    /\ last.packaging_type = "Shipping (S)"
    /\ RequestedRecipes(last) = {}
    /\ \E r \in production_recipes :
          r.finished_good_id = 1 /\ r.inventory_item_id \in DOMAIN inventory_tracking
    /\ "warning_no_recipe" \in last.messages
    /\ Len(production_history) = 1

\* C9: when a matching recipe row references a ledger item that does not
\* exist, the row is skipped and a warning is reported, the operation is
\* not aborted and the items of the other matching rows are depleted.
C9_MissingItemIsWarned ==
    [][(/\ last'.op = "production"
        /\ last'.found
        /\ \E r \in RequestedRecipes(last') :
              r.inventory_item_id \notin DOMAIN inventory_tracking) =>
        /\ last'.messages # {}
        /\ Len(production_history') = Len(production_history) + 1
        /\ \A r \in RequestedRecipes(last') :
              r.inventory_item_id \in DOMAIN inventory_tracking =>
                  IsRounded(last'.cases_produced * r.qty_per_case
                                * (100 + r.wastage_factor),
                            inventory_tracking'[r.inventory_item_id].depleted
                                - inventory_tracking[r.inventory_item_id].depleted)]_vars

----------------------------------------------------------------------------
(* Properties of batch production, checked under SpecBatch *)

\* The recipe rows of the request recorded in l whose spirit holds less
\* than weight_to_produce * percentage / 100.
ShortRows(l) ==
    {r \in batch_recipes :
        /\ r.batch_id = l.batch_id
        /\ r.bulk_spirit_id \in DOMAIN bulk_spirits
        /\ l.weight_to_produce * r.percentage
               > bulk_spirits[r.bulk_spirit_id].weight_lbs}

SpiritRows(l) ==
    {r \in batch_recipes :
        r.batch_id = l.batch_id /\ r.bulk_spirit_id \in DOMAIN bulk_spirits}

\* C11: a successful batch production of weight W takes W * percentage / 100
\* from the weight of every spirit a recipe row references, writes that
\* spirit's wine gallons from the new weight at the spirit's own ABV and
\* its proof gallons at the spirit's own proof, and leaves every other
\* spirit as it was.
C11_SpiritsDepleted ==
    [][(last'.op = "produce_batch" /\ last'.produced) =>
        /\ DOMAIN bulk_spirits' = DOMAIN bulk_spirits
        /\ \A s \in DOMAIN bulk_spirits :
              LET cur == bulk_spirits[s]
                  new == bulk_spirits'[s]
                  rows == {r \in SpiritRows(last') : r.bulk_spirit_id = s}
              IN  /\ rows = {} => new = cur
                  /\ \A r \in rows :
                        /\ new.weight_lbs =
                               cur.weight_lbs - last'.weight_to_produce * r.percentage
                        /\ new.abv = cur.abv
                        /\ new.proof = cur.proof
                        /\ new.wine_gallons =
                               (IF new.weight_lbs = 0
                                THEN [weight |-> 0, abv |-> 0, minus |-> 0]
                                ELSE [weight |-> new.weight_lbs,
                                      abv |-> cur.abv * ABV_PER_TENTH,
                                      minus |-> 0])
                        /\ new.proof_gallons =
                               (IF new.weight_lbs = 0
                                THEN NoProofGallons
                                ELSE [gallons |-> new.wine_gallons,
                                      proof |-> cur.proof])]_vars

\* 10 lb have just been produced from a recipe of 60% spirit 1 and 40% of
\* another ingredient: spirit 1 holds 6 lb less at its own 48%, spirit 2 is
\* untouched.
C11_Witness ==
    /\ last.op = "produce_batch"
    /\ last.produced
    /\ last.weight_to_produce = 10
    /\ {r.bulk_spirit_id : r \in SpiritRows(last)} = {1}
    /\ \E r \in SpiritRows(last) : r.percentage = 6000
    /\ bulk_spirits[1].weight_lbs = 44 * LBS
    /\ bulk_spirits[1].wine_gallons =
           [weight |-> 44 * LBS, abv |-> 480 * ABV_PER_TENTH, minus |-> 0]
    /\ bulk_spirits[1].proof_gallons.proof = 96
    /\ bulk_spirits[2] = NewSpirit("Cane Spirit", 400, 80, 20 * LBS)

\* The sum over the recipe rows in S of percentage * ABV of the row's
\* spirit, in units of 1/100000 percent.
RECURSIVE AlcoholShare(_)
AlcoholShare(S) ==
    IF S = {} THEN 0
    ELSE LET r == CHOOSE x \in S : TRUE
         IN  r.percentage * bulk_spirits[r.bulk_spirit_id].abv
                 + AlcoholShare(S \ {r})

\* C12: the ABV of a production run of weight W > 0 is the sum over the
\* spirit-backed rows of W * percentage / 100 * spirit ABV / 100, divided by
\* W, times 100; it is the ABV the run logs and the batch stores.
C12_RunAbv ==
    [][(last'.op = "produce_batch" /\ last'.produced) =>
        LET entry == batch_production_log'[Len(batch_production_log')]
        IN  /\ Len(batch_production_log') = Len(batch_production_log) + 1
            /\ entry.batch_id = last'.batch_id
            /\ entry.abv * last'.weight_to_produce =
                   last'.weight_to_produce * AlcoholShare(SpiritRows(last'))
            /\ batches'[last'.batch_id].abv = entry.abv]_vars

\* A run of 60% spirit at 48% ABV and 40% of an ingredient without alcohol
\* has just been logged at 28.8%.
C12_Witness ==
    /\ last.op = "produce_batch"
    /\ last.produced
    /\ \E r \in batch_recipes :
          r.batch_id = last.batch_id /\ r.bulk_spirit_id = 1 /\ r.percentage = 6000
    /\ \E r \in batch_recipes :
          r.batch_id = last.batch_id /\ r.bulk_spirit_id = 0 /\ r.percentage = 4000
    /\ Len(batch_production_log) >= 1
    /\ batch_production_log[Len(batch_production_log)].abv = 2880000
    /\ batches[last.batch_id].abv = 2880000

\* The pounds produced by the first n runs of log that went into batch_id,
\* and the same sum with every run weighted by its ABV.
RECURSIVE RunWeight(_, _, _)
RunWeight(log, n, batch_id) ==
    IF n = 0 THEN 0
    ELSE (IF log[n].batch_id = batch_id
          THEN log[n].weight_produced_lbs \div LBS
          ELSE 0)
         + RunWeight(log, n - 1, batch_id)

RECURSIVE RunAlcohol(_, _, _)
RunAlcohol(log, n, batch_id) ==
    IF n = 0 THEN 0
    ELSE (IF log[n].batch_id = batch_id
          THEN (log[n].weight_produced_lbs \div LBS) * log[n].abv
          ELSE 0)
         + RunAlcohol(log, n - 1, batch_id)

\* C13: after a production run the ABV the batch stores is the average of
\* the ABVs of all its runs weighted by their weights, not the ABV of the
\* latest run alone.
C13_LifetimeAbv ==
    [][(last'.op = "produce_batch" /\ last'.produced) =>
        LET log == batch_production_log'
            b == last'.batch_id
        IN  batches'[b].abv * RunWeight(log, Len(log), b)
                = RunAlcohol(log, Len(log), b)]_vars

\* ending * ABV * 2 / 100 for a batch, 0.0 when either factor is zero.
EndingProofGallons(batch) ==
    IF batch.ending = NoVolume \/ batch.abv = 0
    THEN NoProofGallons
    ELSE [gallons |-> batch.ending, proof |-> batch.abv * 2]

\* C14: after a production run and after Save All Changes on the batch
\* table, every batch has ending = gallons - bottled gallons and proof
\* gallons = ending * ABV * 2 / 100, whatever its bottled gallons are.
C14_BatchDerivedFields ==
    [][((last'.op = "produce_batch" /\ last'.produced)
            \/ last'.op = "save_batches") =>
        \A b \in DOMAIN batches' :
            /\ batches'[b].ending =
                   [batches'[b].gallons EXCEPT
                       !.minus = batches'[b].gallons.minus
                                     + batches'[b].bottled_gallons]
            /\ batches'[b].proof_gallons = EndingProofGallons(batches'[b])]_vars

----------------------------------------------------------------------------
(* Properties of the bulk spirits page, checked under SpecSpirits *)

\* The weight held under name by the rows S of spirits.
RECURSIVE StockUnder(_, _, _)
StockUnder(spirits, S, name) ==
    IF S = {} THEN 0
    ELSE LET s == CHOOSE x \in S : TRUE
         IN  (IF spirits[s].name = name THEN spirits[s].weight_lbs ELSE 0)
                 + StockUnder(spirits, S \ {s}, name)

\* C15: a receipt adds its weight to the stock held under its name and
\* removes no row, and the start of a script run removes no spirit row and
\* changes no spirit's weight: rows go only when a user deletes them.
C15_ReceiptsAreKept ==
    [][/\ last'.op = "receive_spirit" =>
            /\ StockUnder(bulk_spirits', DOMAIN bulk_spirits', last'.name) =
                   StockUnder(bulk_spirits, DOMAIN bulk_spirits, last'.name)
                       + last'.weight_lbs
            /\ DOMAIN bulk_spirits \subseteq DOMAIN bulk_spirits'
       /\ last'.op = "reload" =>
            /\ DOMAIN bulk_spirits \subseteq DOMAIN bulk_spirits'
            /\ \A s \in DOMAIN bulk_spirits :
                  bulk_spirits'[s].weight_lbs = bulk_spirits[s].weight_lbs]_vars

----------------------------------------------------------------------------
(* Properties of the finished goods page and the physical counts, checked  *)
(* under SpecGoods                                                         *)

\* C16: every finished good's current_stock is the integer part of
\* (singles + (bottled_s + bottled_i) * case_size) / case_size, taken with
\* the good's own case_size.
C16_StockUsesOwnCaseSize ==
    \A f \in DOMAIN finished_goods :
        LET fg == finished_goods[f]
        IN  fg.current_stock =
                IntTrueDiv(fg.singles + (fg.bottled_s + fg.bottled_i) * fg.case_size,
                           fg.case_size)

\* The good of the example: 164 singles, 6 shipping and 13 in-store cases
\* at 17.01 percent.
IsExampleGood(fg) ==
    /\ fg.singles = 164
    /\ fg.bottled_s = 6
    /\ fg.bottled_i = 13
    /\ fg.abv = 1701

\* C17 as stated: the example good has total_cases 19.833, current_stock
\* 19, proof gallons 8.577 and an excise tax of about 115.79.
C17_StatedExample ==
    \A f \in DOMAIN finished_goods :
        LET fg == finished_goods[f]
        IN  IsExampleGood(fg) =>
                /\ (calculate_total_cases_from_stock(
                        fg.singles, fg.bottled_s, fg.bottled_i) * 1000)
                       \div UNITS_PER_CASE = 19833
                /\ fg.current_stock = 19
                /\ fg.proof_gallons \div (PG_DEN \div 1000) = 8577
                /\ (fg.excise_tax_due + TAX_DEN \div 200) \div (TAX_DEN \div 100)
                       = 11579

\* C17 amended: the example good has total_cases 620 / 24 = 25.833,
\* current_stock 25, proof gallons 11.161 and an excise tax of 150.68 to
\* the cent.
C17_ExampleMetrics ==
    \A f \in DOMAIN finished_goods :
        LET fg == finished_goods[f]
        IN  IsExampleGood(fg) =>
                /\ (calculate_total_cases_from_stock(
                        fg.singles, fg.bottled_s, fg.bottled_i) * 1000)
                       \div UNITS_PER_CASE = 25833
                /\ fg.current_stock = 25
                /\ fg.proof_gallons \div (PG_DEN \div 1000) = 11161
                /\ (fg.excise_tax_due + TAX_DEN \div 200) \div (TAX_DEN \div 100)
                       = 15068

\* The example good has just been added through the form.
C17_Witness ==
    /\ last.op = "add_good"
    /\ last.id \in DOMAIN finished_goods
    /\ IsExampleGood(finished_goods[last.id])
    /\ IsExampleGood(last.form)

\* The wine gallons of a good over 100 * UNITS_PER_CASE.
WineGallons(fg) ==
    calculate_total_cases_from_stock(fg.singles, fg.bottled_s, fg.bottled_i)
        * GALLONS_PER_CASE_100

\* The proof of a good in hundredths.
Proof(fg) == fg.abv * 2

\* C18 as stated: the proof gallons of a good with a positive ABV are wine
\* gallons * proof / 200, and 0 for no wine gallons.  WineGallons * Proof
\* is the product over 100 * UNITS_PER_CASE * 100; divided by the 100 of
\* proof / 100 it is a numerator over 2 * PG_DEN, by 200 one over 4 * PG_DEN.
C18_ProofGallonsPerTwoHundred ==
    \A f \in DOMAIN finished_goods :
        LET fg == finished_goods[f]
        IN  fg.abv > 0 =>
                /\ fg.proof_gallons * 4 = WineGallons(fg) * Proof(fg)
                /\ WineGallons(fg) = 0 => fg.proof_gallons = 0

\* C18 amended: the proof gallons of a good with a positive ABV are wine
\* gallons * proof / 100, and 0 for no wine gallons.
C18_ProofGallonsPerHundred ==
    \A f \in DOMAIN finished_goods :
        LET fg == finished_goods[f]
        IN  fg.abv > 0 =>
                /\ fg.proof_gallons * 2 = WineGallons(fg) * Proof(fg)
                /\ WineGallons(fg) = 0 => fg.proof_gallons = 0

\* A good with stock and a good without, both with a positive ABV, after an
\* adjusting physical count.
C18_Witness ==
    /\ last.op = "physical_count"
    /\ last.adjust
    /\ \E f \in DOMAIN finished_goods :
          /\ finished_goods[f].abv > 0
          /\ WineGallons(finished_goods[f]) > 0
          /\ finished_goods[f].proof_gallons > 0
    /\ \E f \in DOMAIN finished_goods :
          /\ finished_goods[f].abv > 0
          /\ WineGallons(finished_goods[f]) = 0
          /\ finished_goods[f].proof_gallons = 0

\* A percentage pct = num / den is the percentage variance / system.
IsPercentageOf(pct, variance, system) ==
    /\ pct.den > 0
    /\ IF system > 0
       THEN pct.num * system = variance * 100 * pct.den
       ELSE pct.num = 0

\* The units of a finished good's stock.
StockUnits(stock) ==
    stock.singles + (stock.bottled_s + stock.bottled_i) * 24

\* C19: a count row holds variance = actual - system and the percentage
\* variance / system * 100, 0 when the system count is not positive; for a
\* ledger item the system count is units_remaining, for a finished good
\* both counts are singles + (bottled_s + bottled_i) * 24 and
\* variance_cases is the variance in units / 24.
C19_CountVariance ==
    [][/\ last'.op = "inventory_count" =>
            \A i \in DOMAIN inventory_tracking :
                LET row == last'.inserted[i]
                    S == inventory_tracking[i].units_remaining
                    A == last'.actual[i]
                IN  /\ row.variance_units = A - S
                    /\ IsPercentageOf(row.variance_percentage, A - S, S)
       /\ last'.op = "physical_count" =>
            \A f \in DOMAIN finished_goods :
                LET row == last'.inserted[f]
                    S == StockUnits(finished_goods[f])
                    A == StockUnits(last'.actual[f])
                IN  /\ row.variance_units = A - S
                    /\ row.variance_cases.den > 0
                    /\ row.variance_cases.num * 24
                           = (A - S) * row.variance_cases.den
                    /\ IsPercentageOf(row.variance_percentage, A - S, S)]_vars

\* A physical count has found 92 units of a good the system held 100 of,
\* a variance of -8 and -8.0 percent, and 5 units of a good the system held
\* none of, a variance of 5 and 0 percent.
C19_Witness ==
    /\ last.op = "physical_count"
    /\ \E f \in DOMAIN last.inserted :
          /\ StockUnits(last.actual[f]) = 92
          /\ last.inserted[f].variance_units = -8
          /\ last.inserted[f].variance_percentage.num
                 = (-8) * last.inserted[f].variance_percentage.den
    /\ \E f \in DOMAIN last.inserted :
          /\ StockUnits(last.actual[f]) = 5
          /\ last.inserted[f].variance_units = 5
          /\ last.inserted[f].variance_percentage.num = 0

----------------------------------------------------------------------------
(* Properties of the ledger count, checked under SpecLedger *)

\* C20: a ledger count saved with the adjust option leaves every item with
\* units_remaining = the counted units, started and depleted as they were
\* and added = counted - started + depleted; saved without the option it
\* changes no ledger item.
C20_AdjustingCount ==
    [][last'.op = "inventory_count" =>
           IF last'.adjust
           THEN \A i \in DOMAIN inventory_tracking :
                    /\ inventory_tracking'[i].units_remaining = last'.actual[i]
                    /\ inventory_tracking'[i].started = inventory_tracking[i].started
                    /\ inventory_tracking'[i].depleted = inventory_tracking[i].depleted
                    /\ inventory_tracking'[i].added =
                           last'.actual[i] - inventory_tracking[i].started
                               + inventory_tracking[i].depleted
           ELSE inventory_tracking' = inventory_tracking]_vars

\* An adjusting count that differs from the system count has been saved
\* for an item with depletions.
C20_Witness ==
    /\ last.op = "inventory_count"
    /\ last.adjust
    /\ \E i \in DOMAIN inventory_tracking :
          /\ last.actual[i] # last.inserted[i].system_units
          /\ inventory_tracking[i].depleted > 0
          /\ inventory_tracking[i].units_remaining = last.actual[i]
          /\ inventory_tracking[i].added =
                 last.actual[i] - inventory_tracking[i].started
                     + inventory_tracking[i].depleted

----------------------------------------------------------------------------
(* Properties of the production log, checked under Spec *)

\* C21: a production request that finds its finished good appends exactly
\* one entry to the production log, and every step leaves the entries the
\* log already holds in place and unchanged; no other step adds an entry.
C21_LogIsAppendOnly ==
    [][/\ Len(production_history') >= Len(production_history)
       /\ SubSeq(production_history', 1, Len(production_history))
              = production_history
       /\ IF last'.op = "production" /\ last'.found
          THEN Len(production_history') = Len(production_history) + 1
          ELSE production_history' = production_history]_vars

\* A second production has been logged and a finished good deleted
\* afterwards: both entries are still there.
C21_Witness ==
    /\ last.op = "delete_finished_good"
    /\ Len(production_history) = 2
    /\ \E n \in 1..2 : production_history[n].finished_good_id = last.id

----------------------------------------------------------------------------
(* Properties of batch recipes and batch production, checked under         *)
(* SpecBatch                                                               *)

\* The sum of the percentages of the recipe rows S.
RECURSIVE PercentageSum(_)
PercentageSum(S) ==
    IF S = {} THEN 0
    ELSE LET r == CHOOSE x \in S : TRUE
         IN  r.percentage + PercentageSum(S \ {r})

\* The stored rows of every batch are none or sum to 100 within 0.1.
RecipesAreComplete ==
    \A batch_id \in DOMAIN batches :
        LET rows == {r \in batch_recipes : r.batch_id = batch_id}
        IN  \/ rows = {}
            \/ /\ PercentageSum(rows) >= 10000 - 10
               /\ PercentageSum(rows) <= 10000 + 10

\* C22: in every reachable state the stored recipe rows of each batch are
\* none or have percentages that sum to 100 within 0.1, and a recipe save
\* whose total is farther than that from 100 leaves the stored rows as
\* they were.
C22_RecipeTotals ==
    /\ []RecipesAreComplete
    /\ [][last'.op = "save_batch_recipe"
             /\ (last'.total_percentage < 10000 - 10
                    \/ last'.total_percentage > 10000 + 10)
          => batch_recipes' = batch_recipes]_vars

\* A save of 160% has just been refused for a batch that holds a recipe.
C22_Witness ==
    /\ last.op = "save_batch_recipe"
    /\ last.total_percentage = 16000
    /\ ~last.saved
    /\ {r \in batch_recipes : r.batch_id = last.batch_id} # {}

----------------------------------------------------------------------------
(* Properties of the production log entries, checked under Spec *)

\* The numerator over PG_DEN of cases * 1.27 gallons at abv hundredths of
\* a percent: cases * 127 / 100 * (abv * 2 / 100) / 100.
CaseProofGallons(cases, abv) ==
    cases * 127 * abv * 2 * (PG_DEN \div 1000000)

\* tax (over TAX_DEN) is 13.50 = 27 / 2 times pg (over PG_DEN):
\* tax * 2 * PG_DEN = 27 * pg * TAX_DEN, with both sides divided by TAX_DEN
\* to keep the products small.
IsTaxOf(tax, pg) ==
    tax * ((2 * PG_DEN) \div TAX_DEN) = pg * 27

\* C23: the log entry of a production of c cases of a good with ABV a has
\* units_produced = c * 24 and, when a > 0, proof_gallons_produced =
\* c * 1.27 * (a * 2) / 100 and excise_tax_incurred = 13.50 times that;
\* when a <= 0 both are 0.
C23_LogEntryMetrics ==
    [][last'.op = "production" /\ last'.found =>
           LET entry == production_history'[Len(production_history')]
               c == last'.cases_produced
               a == finished_goods[last'.product].abv
           IN  /\ entry.finished_good_id = last'.product
               /\ entry.cases_produced = c
               /\ entry.units_produced = c * 24
               /\ IF a > 0
                  THEN /\ entry.proof_gallons_produced = CaseProofGallons(c, a)
                       /\ IsTaxOf(entry.excise_tax_incurred,
                                  entry.proof_gallons_produced)
                  ELSE /\ entry.proof_gallons_produced = 0
                       /\ entry.excise_tax_incurred = 0]_vars

\* The log holds an entry of a good with an ABV, with proof gallons and
\* tax, and an entry of a good without, with neither.
C23_Witness ==
    /\ last.op = "production"
    /\ last.found
    /\ \E n \in 1..Len(production_history) :
          /\ production_history[n].units_produced = 72
          /\ production_history[n].proof_gallons_produced > 0
          /\ production_history[n].excise_tax_incurred > 0
    /\ \E n \in 1..Len(production_history) :
          /\ production_history[n].units_produced = 72
          /\ production_history[n].proof_gallons_produced = 0
          /\ production_history[n].excise_tax_incurred = 0

\* C24: the stored metrics of a finished good with ABV > 0 are proof
\* gallons = total_cases * 1.27 * (ABV * 2) / 100 and excise tax = 13.50
\* times that, with total_cases = (singles + (bottled_s + bottled_i) * 24)
\* / 24 not truncated; with ABV <= 0 both are 0.  The 24 of total_cases is
\* moved to the left-hand side.
C24_DerivedMetrics ==
    \A f \in DOMAIN finished_goods :
        LET fg == finished_goods[f]
            units == fg.singles + (fg.bottled_s + fg.bottled_i) * 24
        IN  IF fg.abv > 0
            THEN /\ fg.proof_gallons * 24 = CaseProofGallons(units, fg.abv)
                 /\ IsTaxOf(fg.excise_tax_due, fg.proof_gallons)
            ELSE /\ fg.proof_gallons = 0
                 /\ fg.excise_tax_due = 0

\* Production has written a good with an ABV whose stock is not a whole
\* number of cases, and a good without ABV holds stock.
C24_Witness ==
    /\ last.op = "production"
    /\ last.found
    /\ \E f \in DOMAIN finished_goods :
          /\ finished_goods[f].abv > 0
          /\ finished_goods[f].singles % 24 # 0
          /\ finished_goods[f].current_stock > 1
          /\ finished_goods[f].proof_gallons > 0
    /\ \E f \in DOMAIN finished_goods :
          /\ finished_goods[f].abv = 0
          /\ finished_goods[f].current_stock > 0
          /\ finished_goods[f].proof_gallons = 0

\* C25: a successful production run of W lb stores this run's ABV as the
\* batch's ABV and sets gallons to the volume, at that ABV, of the weight
\* the prior gallons had at the prior ABV plus W.
C25_BatchVolumeUpdate ==
    [][(last'.op = "produce_batch" /\ last'.produced) =>
        LET b == last'.batch_id
            prior == batches[b]
            W == last'.weight_to_produce
        IN  /\ batches'[b].abv = AlcoholShare(SpiritRows(last'))
            /\ batches'[b].gallons =
                   calculate_gallons_from_weight(
                       calculate_weight_from_gallons(prior.gallons, prior.abv)
                           + W * LBS,
                       batches'[b].abv)]_vars

\* A second run at another ABV has gone into a batch: the batch holds the
\* weight of both runs as a volume at the ABV of the second.
C25_Witness ==
    /\ last.op = "produce_batch"
    /\ last.produced
    /\ Len(batch_production_log) = 2
    /\ batch_production_log[1].batch_id = last.batch_id
    /\ batch_production_log[1].abv # batch_production_log[2].abv
    /\ batches[last.batch_id].abv = batch_production_log[2].abv
    /\ batches[last.batch_id].gallons.abv = batch_production_log[2].abv
    /\ batches[last.batch_id].gallons.weight =
           batch_production_log[1].weight_produced_lbs
               + batch_production_log[2].weight_produced_lbs

----------------------------------------------------------------------------
(* Properties of the order of the writes of a batch production run,        *)
(* checked under SpecBatchRun                                              *)

\* C26: a step that appends an entry to the batch production log is a step
\* of a run that has depleted every spirit of the recipe and updated the
\* batch: the log is the last of the writes of a run, so a run stopped
\* partway leaves no entry.
C26_LogIsWrittenLast ==
    [][Len(batch_production_log') > Len(batch_production_log) =>
        LET b == last'.batch_id
            W == last'.weight_to_produce
            recipes == RecipesOfBatch(b)
            entry == batch_production_log'[Len(batch_production_log')]
        IN  /\ entry.batch_id = b
            /\ bulk_spirits' = DepleteSpirits(recipes, W)
            /\ batches'[b] = UpdateBatch(batches[b], W, entry.abv)]_vars

\* A run has been stopped after it depleted both spirits and updated the
\* batch: the batch holds the produced weight and the log holds nothing.
C26_Witness ==
    /\ last.op = "produce_batch_interrupted"
    /\ last.writes_done = 3
    /\ batch_production_log = <<>>
    /\ batches[last.batch_id].gallons # NoVolume
    /\ bulk_spirits[1].weight_lbs < 50 * LBS
    /\ bulk_spirits[2].weight_lbs < 20 * LBS

----------------------------------------------------------------------------
(* Properties of the sales page, checked under SpecSales *)

\* C27: over the lifetime of an order the Update Status handler decreases
\* finished-good stock and increases sold for it at most once, whatever
\* statuses the order is taken through.
C27_ShippedAtMostOnce ==
    \A o \in DOMAIN orders : orders[o].stock_decreases <= 1

\* C28: shipping an order of one item of q cases of a good that holds at
\* least q cases in all takes exactly q * 24 units from the good's total
\* units, from bottled_s first, then bottled_i, then singles, and leaves no
\* stock field negative.
C28_ShipmentTakesWholeCases ==
    [][(/\ last'.op = "update_status"
        /\ last'.shipped
        /\ Len(orders[last'.id].order_items) = 1
        /\ orders[last'.id].order_items[1].product_name \in DOMAIN finished_goods
        /\ StockUnits(finished_goods[orders[last'.id].order_items[1].product_name])
               >= orders[last'.id].order_items[1].quantity_cases * 24)
       => LET item == orders[last'.id].order_items[1]
              before == finished_goods[item.product_name]
              after == finished_goods'[item.product_name]
          IN  /\ StockUnits(after) = StockUnits(before) - item.quantity_cases * 24
              /\ after.bottled_i < before.bottled_i => after.bottled_s = 0
              /\ after.singles < before.singles =>
                     after.bottled_s = 0 /\ after.bottled_i = 0
              /\ after.singles >= 0
              /\ after.bottled_s >= 0
              /\ after.bottled_i >= 0]_vars

----------------------------------------------------------------------------
(* Properties that tie the production log to the finished goods, checked   *)
(* under Spec                                                              *)

\* C29: a production of c cases, of any packaging type, raises the good's
\* stored proof gallons and excise tax by the proof gallons and the tax the
\* log entry records, and its current_stock by c.
C29_LogMatchesStockIncrease ==
    [][last'.op = "production" /\ last'.found =>
           LET entry == production_history'[Len(production_history')]
               before == finished_goods[last'.product]
               after == finished_goods'[last'.product]
           IN  /\ after.abv = before.abv
               /\ after.proof_gallons - before.proof_gallons
                      = entry.proof_gallons_produced
               /\ after.excise_tax_due - before.excise_tax_due
                      = entry.excise_tax_incurred
               /\ after.current_stock = before.current_stock + last'.cases_produced]_vars

\* In-store cases of a good with an ABV and loose singles have just been
\* produced and logged with their proof gallons.
C29_Witness ==
    /\ last.op = "production"
    /\ last.found
    /\ last.packaging_type = "In-store (I)"
    /\ finished_goods[last.product].abv > 0
    /\ finished_goods[last.product].singles % 24 # 0
    /\ finished_goods[last.product].bottled_i = last.cases_produced
    /\ production_history[Len(production_history)].proof_gallons_produced > 0

----------------------------------------------------------------------------
(* Properties of the stock of bulk spirits, checked under SpecSpiritStock *)

====
